---- MODULE Spec2Model ----
(***************************************************************************)
(* Model of the waylog incremental synchronisation engine:                 *)
(*   - the Claude log parser          (src/src/providers/claude.rs)        *)
(*   - the output writer              (src/src/exporter/markdown.rs)       *)
(*   - the metadata reader            (src/src/exporter/frontmatter.rs)    *)
(*   - the sync-state store           (src/src/session/{state,tracker}.rs) *)
(*   - the synchronizer               (src/src/synchronizer.rs)            *)
(*                                                                         *)
(* Text is a sequence of tokens.  A token is one character ("-", " ",      *)
(* "\n", "a", ...) or one of the fixed key words the writer emits          *)
(* ("session_id:", ...), so that the marker search of the metadata reader  *)
(* works on characters as in the source.                                   *)
(***************************************************************************)
EXTENDS Integers, Sequences, FiniteSets, TLC

VARIABLES logs, disk, store, last, watch, calls

vars == <<logs, disk, store, last, watch, calls>>

(***************************************************************************)
(* Bounds of the model.                                                    *)
(***************************************************************************)
\* total number of lines over all source logs
MaxLog == 3
\* the same, where the logs are also rewritten and the process restarted
MaxCoreLog == 2
\* largest number of message blocks an artifact may hold
MaxBlocks == 3
\* largest part of a failing write
MaxPart == 2
\* largest number of characters typed into the arguments of one call
MaxText == 3
\* largest number of messages of a session that is built directly
MaxMsgs == 2
\* largest number of raw events of a log that is built directly
MaxEvents == 3

(***************************************************************************)
(* Options and small text helpers.                                         *)
(***************************************************************************)
NoneStr == [some |-> FALSE, v |-> <<>>]

SomeStr(s) == [some |-> TRUE, v |-> s]

NoneNum == [some |-> FALSE, v |-> 0]

SomeNum(n) == [some |-> TRUE, v |-> n]

NL == "\n"

Dash == "-"

DigitChars == <<"0", "1", "2", "3", "4", "5", "6", "7", "8", "9">>

IsDigit(c) == \E i \in 1..10 : DigitChars[i] = c

DigitVal(c) == (CHOOSE i \in 1..10 : DigitChars[i] = c) - 1

RECURSIVE ToDigits(_)
\* format!("{}", n) for an unsigned integer
ToDigits(n) ==
    IF n < 10 THEN <<DigitChars[n + 1]>>
    ELSE ToDigits(n \div 10) \o <<DigitChars[(n % 10) + 1]>>

RECURSIVE DigitsValue(_)
DigitsValue(s) ==
    IF s = <<>> THEN 0
    ELSE 10 * DigitsValue(SubSeq(s, 1, Len(s) - 1)) + DigitVal(s[Len(s)])

\* str::parse::<usize>: an optional "+" followed by one or more digits
ParseUsize(s) ==
    LET body == IF s # <<>> /\ s[1] = "+" THEN Tail(s) ELSE s
    IN  IF body # <<>> /\ \A i \in 1..Len(body) : IsDigit(body[i])
        THEN SomeNum(DigitsValue(body))
        ELSE NoneNum

IsSpace(c) == c \in {" ", NL, "\t"}

RECURSIVE TrimStart(_)
TrimStart(s) == IF s # <<>> /\ IsSpace(s[1]) THEN TrimStart(Tail(s)) ELSE s

RECURSIVE TrimEnd(_)
TrimEnd(s) ==
    IF s # <<>> /\ IsSpace(s[Len(s)]) THEN TrimEnd(SubSeq(s, 1, Len(s) - 1)) ELSE s

\* str::trim
Trim(s) == TrimEnd(TrimStart(s))

RECURSIVE SplitLines(_)
\* str::lines: the text cut at every "\n"; no empty last line
SplitLines(s) ==
    IF s = <<>> THEN <<>>
    ELSE IF \E i \in 1..Len(s) : s[i] = NL
         THEN LET i == CHOOSE k \in 1..Len(s) :
                           s[k] = NL /\ \A j \in 1..(k - 1) : s[j] # NL
              IN  <<SubSeq(s, 1, i - 1)>> \o SplitLines(SubSeq(s, i + 1, Len(s)))
         ELSE <<s>>

\* positions where the three-character marker "---" starts
MarkerAt(s) ==
    {i \in 1..(Len(s) - 2) : s[i] = Dash /\ s[i + 1] = Dash /\ s[i + 2] = Dash}

(***************************************************************************)
(* Output writer: the metadata block (src/src/exporter/markdown.rs).       *)
(***************************************************************************)
Marker == <<Dash, Dash, Dash>>

\* DateTime::to_rfc3339 of an instant; instants are small naturals
Rfc3339(t) == <<"T">> \o ToDigits(t) \o <<"Z">>

\* the metadata block written by generate_markdown (lines 12-39); the events
\* of the model carry no token usage, so there is no total_tokens line
GenerateFrontmatter(session) ==
    Marker \o <<NL>>
    \o <<"provider:", " ">> \o session.provider \o <<NL>>
    \o <<"session_id:", " ">> \o session.session_id \o <<NL>>
    \o <<"project:", " ">> \o session.project_path \o <<NL>>
    \o <<"started_at:", " ">> \o Rfc3339(session.started_at) \o <<NL>>
    \o <<"updated_at:", " ">> \o Rfc3339(session.updated_at) \o <<NL>>
    \o <<"message_count:", " ">> \o ToDigits(Len(session.messages)) \o <<NL>>
    \o Marker \o <<NL, NL>>

(***************************************************************************)
(* Metadata reader (src/src/exporter/frontmatter.rs).                      *)
(***************************************************************************)
EmptyFrontmatter ==
    [session_id |-> NoneStr, provider |-> NoneStr, message_count |-> NoneNum]

\* one line of the block applied to the fields read so far (lines 32-43)
FrontmatterLine(fm, rawLine) ==
    LET line == Trim(rawLine)
    IN  IF line # <<>> /\ line[1] = "session_id:"
        THEN [fm EXCEPT !.session_id = SomeStr(Trim(Tail(line)))]
        ELSE IF line # <<>> /\ line[1] = "provider:"
        THEN [fm EXCEPT !.provider = SomeStr(Trim(Tail(line)))]
        ELSE IF line # <<>> /\ line[1] = "message_count:"
        THEN LET count == ParseUsize(Trim(Tail(line)))
             IN  IF count.some THEN [fm EXCEPT !.message_count = count] ELSE fm
        ELSE fm

RECURSIVE FrontmatterLines(_, _)
FrontmatterLines(fm, lines) ==
    IF lines = <<>> THEN fm
    ELSE FrontmatterLines(FrontmatterLine(fm, Head(lines)), Tail(lines))

\* parse_frontmatter on the leading text of an opened file
ParseFrontmatter(text) ==
    IF Len(text) >= 3 /\ SubSeq(text, 1, 3) = Marker
    THEN LET stripped == SubSeq(text, 4, Len(text))
         IN  IF MarkerAt(stripped) # {}
             THEN LET end_idx == CHOOSE i \in MarkerAt(stripped) :
                                     \A j \in MarkerAt(stripped) : i <= j
                      yaml_block == SubSeq(stripped, 1, end_idx - 1)
                  IN  FrontmatterLines(EmptyFrontmatter, SplitLines(yaml_block))
             ELSE EmptyFrontmatter
    ELSE EmptyFrontmatter

(***************************************************************************)
(* File-name slug (src/src/utils/string.rs).                               *)
(***************************************************************************)
SlugMaxChars == 50

LowerChars == <<"a", "b", "c", "d", "e", "f", "g", "h", "i", "j", "k", "l", "m",
                "n", "o", "p", "q", "r", "s", "t", "u", "v", "w", "x", "y", "z">>

UpperChars == <<"A", "B", "C", "D", "E", "F", "G", "H", "I", "J", "K", "L", "M",
                "N", "O", "P", "Q", "R", "S", "T", "U", "V", "W", "X", "Y", "Z">>

\* alphanumeric characters outside ASCII, one token each
NonAsciiAlnum == {"U+00E9", "U+00C9"}

IsLower(c) == \E i \in 1..26 : LowerChars[i] = c

IsUpper(c) == \E i \in 1..26 : UpperChars[i] = c

\* char::is_alphanumeric
IsAlphanumeric(c) == IsLower(c) \/ IsUpper(c) \/ IsDigit(c) \/ c \in NonAsciiAlnum

\* char::to_ascii_lowercase: only A-Z change
ToAsciiLowercase(c) ==
    IF IsUpper(c) THEN LowerChars[CHOOSE i \in 1..26 : UpperChars[i] = c] ELSE c

RECURSIVE CollapseHyphens(_, _, _)
\* the loop of lines 21-31: clean_slug, last_was_hyphen, the rest of slug
CollapseHyphens(clean_slug, last_was_hyphen, slug) ==
    IF slug = <<>> THEN clean_slug
    ELSE IF Head(slug) = Dash
         THEN IF ~last_was_hyphen
              THEN CollapseHyphens(Append(clean_slug, Dash), TRUE, Tail(slug))
              ELSE CollapseHyphens(clean_slug, last_was_hyphen, Tail(slug))
         ELSE CollapseHyphens(Append(clean_slug, Head(slug)), FALSE, Tail(slug))

slugify(text) ==
    LET truncated == SubSeq(text, 1, IF Len(text) < SlugMaxChars THEN Len(text) ELSE SlugMaxChars)
        slug == [i \in 1..Len(truncated) |->
                    IF IsAlphanumeric(truncated[i]) THEN ToAsciiLowercase(truncated[i]) ELSE Dash]
        collapsed == CollapseHyphens(<<>>, TRUE, slug)
        clean_slug == IF collapsed # <<>> /\ collapsed[Len(collapsed)] = Dash
                      THEN SubSeq(collapsed, 1, Len(collapsed) - 1)
                      ELSE collapsed
    IN  IF clean_slug = <<>> THEN <<"n", "e", "w", "-", "c", "h", "a", "t">> ELSE clean_slug

(***************************************************************************)
(* Claude log parser (src/src/providers/claude.rs).                        *)
(*                                                                         *)
(* A log line is a record:                                                 *)
(*   blank      the line is empty after trimming                           *)
(*   json       the line deserialises as a ClaudeEvent                     *)
(*   type       the event's "type"                                         *)
(*   session_id, cwd   optional strings                                    *)
(*   timestamp  optional instant (absent stands for a missing or           *)
(*              unparseable time stamp: both are replaced by now)          *)
(*   message    optional [text, items]: a plain string, or a list of       *)
(*              content blocks [content_type, text, name]                  *)
(***************************************************************************)
ClaudeName == <<"c", "l", "a", "u", "d", "e">>

NoneMsg == [some |-> FALSE, v |-> [array |-> FALSE, text |-> <<>>, items |-> <<>>]]

TextMessage(text) == [some |-> TRUE, v |-> [array |-> FALSE, text |-> text, items |-> <<>>]]

ArrayMessage(items) == [some |-> TRUE, v |-> [array |-> TRUE, text |-> <<>>, items |-> items]]

RECURSIVE JoinLines(_)
\* Vec<String>::join("\n")
JoinLines(parts) ==
    IF parts = <<>> THEN <<>>
    ELSE IF Len(parts) = 1 THEN parts[1]
    ELSE parts[1] \o <<NL>> \o JoinLines(Tail(parts))

RECURSIVE TextItems(_)
\* the text of the content blocks tagged "text", in order (lines 142-151)
TextItems(items) ==
    IF items = <<>> THEN <<>>
    ELSE IF Head(items).content_type = "text" /\ Head(items).text.some
         THEN <<Head(items).text.v>> \o TextItems(Tail(items))
         ELSE TextItems(Tail(items))

RECURSIVE ToolItems(_)
\* the names of the content blocks tagged "tool_use" (lines 184-189)
ToolItems(items) ==
    IF items = <<>> THEN <<>>
    ELSE IF Head(items).content_type = "tool_use" /\ Head(items).name.some
         THEN <<Head(items).name.v>> \o ToolItems(Tail(items))
         ELSE ToolItems(Tail(items))

\* first position of token tag at or after position from, 0 when there is none
FindFrom(s, tag, from) ==
    IF \E i \in from..Len(s) : s[i] = tag
    THEN CHOOSE i \in from..Len(s) : s[i] = tag /\ \A j \in from..(i - 1) : s[j] # tag
    ELSE 0

\* format_claude_xml: the tags are single tokens of the text
format_claude_xml(content) ==
    LET cs == FindFrom(content, "<command-name>", 1)
        ce == IF cs = 0 THEN 0 ELSE FindFrom(content, "</command-name>", cs)
        cmd == IF ce = 0 THEN <<>> ELSE Trim(SubSeq(content, cs + 1, ce - 1))
        os == FindFrom(content, "<local-command-stdout>", 1)
        oe == IF os = 0 THEN 0 ELSE FindFrom(content, "</local-command-stdout>", os)
    IN  IF ce # 0 /\ cmd # <<>> /\ cmd[1] = "/"
        THEN <<">", " ">> \o cmd
        ELSE IF oe # 0
             THEN <<">", " ", "U+23BF", " ">> \o Trim(SubSeq(content, os + 1, oe - 1))
             ELSE content

NoMessage == [some |-> FALSE,
              v |-> [role |-> "User", content |-> <<>>, timestamp |-> 0, tool_calls |-> <<>>]]

\* ClaudeProvider::parse_message
ClaudeParseMessage(event, now) ==
    IF event.type \notin {"user", "assistant"} THEN NoMessage
    ELSE IF ~event.message.some THEN NoMessage
    ELSE LET role == IF event.type = "user" THEN "User" ELSE "Assistant"
             raw == IF event.message.v.array
                    THEN JoinLines(TextItems(event.message.v.items))
                    ELSE event.message.v.text
         IN  IF raw = <<>> THEN NoMessage
             ELSE [some |-> TRUE,
                   v |-> [role |-> role,
                          content |-> IF role = "User" THEN format_claude_xml(raw) ELSE raw,
                          timestamp |-> IF event.timestamp.some THEN event.timestamp.v ELSE now,
                          tool_calls |-> IF event.message.v.array
                                         THEN ToolItems(event.message.v.items)
                                         ELSE <<>>]]

RECURSIVE ClaudeParseLines(_, _, _, _)
\* the loop of parse_session (lines 78-109); acc.ok = FALSE is the Err return
ClaudeParseLines(acc, lines, stem, now) ==
    IF lines = <<>> THEN acc
    ELSE LET line == Head(lines)
         IN  IF line.blank THEN ClaudeParseLines(acc, Tail(lines), stem, now)
             ELSE IF ~line.json THEN [acc EXCEPT !.ok = FALSE]
             ELSE LET acc1 == IF acc.session_id = <<>>
                              THEN [acc EXCEPT
                                      !.session_id = IF line.session_id.some
                                                     THEN line.session_id.v ELSE stem,
                                      !.project_path = IF line.cwd.some THEN line.cwd.v ELSE @]
                              ELSE acc
                      msg == ClaudeParseMessage(line, now)
                      acc2 == IF line.type \in {"user", "assistant"} /\ msg.some
                              THEN [acc1 EXCEPT
                                      !.started_at = IF acc1.messages = <<>>
                                                     THEN msg.v.timestamp ELSE @,
                                      !.messages = Append(@, msg.v)]
                              ELSE acc1
                  IN  ClaudeParseLines(acc2, Tail(lines), stem, now)

\* ClaudeProvider::parse_session of the file named stem holding lines; readable =
\* the file could be opened and read.  The result is [ok, session].
ClaudeParseSession(stem, lines, readable, now) ==
    LET acc == ClaudeParseLines(
                   [ok |-> readable, session_id |-> <<>>, project_path |-> <<>>,
                    started_at |-> now, messages |-> <<>>],
                   IF readable THEN lines ELSE <<>>, stem, now)
    IN  [ok |-> acc.ok,
         session |-> [session_id |-> acc.session_id,
                      provider |-> ClaudeName,
                      project_path |-> acc.project_path,
                      started_at |-> acc.started_at,
                      updated_at |-> IF acc.messages # <<>>
                                     THEN acc.messages[Len(acc.messages)].timestamp
                                     ELSE acc.started_at,
                      messages |-> acc.messages]]

(***************************************************************************)
(* Output writer (src/src/exporter/markdown.rs).  An artifact is           *)
(*   head    the text of the metadata block (empty when the file was       *)
(*           created by an append)                                         *)
(*   title   the title line                                                *)
(*   blocks  the rendered message blocks, in file order                    *)
(***************************************************************************)
TitleMaxLen == 60

Untitled == <<"U", "n", "t", "i", "t", "l", "e", "d", " ", "S", "e", "s", "s", "i", "o", "n">>

\* format_message: role label, time stamp, body and tool list of one block
format_message(message) ==
    [role_name |-> message.role, time |-> message.timestamp,
     body |-> message.content, tools |-> message.tool_calls]

\* a writer that orders the blocks by the time stamps of the messages
FormatMessagesByTime(messages) ==
    SortSeq([i \in 1..Len(messages) |-> format_message(messages[i])],
            LAMBDA a, b : a.time < b.time)

\* the blocks of the messages, in the order of the list (lines 46-49, 146-150)
FormatMessages(messages) == [i \in 1..Len(messages) |-> format_message(messages[i])]

\* the number of bytes of a character in UTF-8
Utf8Width(c) ==
    IF c \in NonAsciiAlnum THEN 2 ELSE IF c = "U+23BF" THEN 3 ELSE 1

RECURSIVE ByteLen(_)
\* str::len: the length of a text in bytes
ByteLen(text) == IF text = <<>> THEN 0 ELSE Utf8Width(Head(text)) + ByteLen(Tail(text))

\* the characters of a text that end within its first n bytes
CharsWithin(text, n) ==
    SubSeq(text, 1, Cardinality({k \in 1..Len(text) : ByteLen(SubSeq(text, 1, k)) <= n}))

\* str::is_char_boundary for an index within the text
IsCharBoundary(text, n) == ByteLen(CharsWithin(text, n)) = n

\* the first line of the first user message, the placeholder for a message
\* without lines (lines 120-123)
FirstUserLine(messages) ==
    LET i == CHOOSE k \in 1..Len(messages) :
                 messages[k].role = "User"
                 /\ \A j \in 1..(k - 1) : messages[j].role # "User"
    IN  IF SplitLines(messages[i].content) = <<>> THEN Untitled
        ELSE SplitLines(messages[i].content)[1]

\* the slice &first_line[..60] of line 125 panics: the line is longer than
\* 60 bytes and byte 60 is not the start of a character
TitlePanics(messages) ==
    /\ \E i \in 1..Len(messages) : messages[i].role = "User"
    /\ ByteLen(FirstUserLine(messages)) > TitleMaxLen
    /\ ~IsCharBoundary(FirstUserLine(messages), TitleMaxLen)

\* extract_title, when the slice does not panic
extract_title(messages) ==
    IF \E i \in 1..Len(messages) : messages[i].role = "User"
    THEN IF ByteLen(FirstUserLine(messages)) > TitleMaxLen
         THEN CharsWithin(FirstUserLine(messages), TitleMaxLen) \o <<".", ".", ".">>
         ELSE FirstUserLine(messages)
    ELSE Untitled

generate_markdown(session) ==
    [head |-> GenerateFrontmatter(session),
     title |-> extract_title(session.messages),
     blocks |-> FormatMessages(session.messages)]

EmptyFile == [head |-> <<>>, title |-> <<>>, blocks |-> <<>>]

\* the directory d with the file at path set to content
WriteFile(d, path, content) ==
    [p \in (DOMAIN d) \cup {path} |-> IF p = path THEN content ELSE d[p]]

Min(a, b) == IF a < b THEN a ELSE b

(***************************************************************************)
(* An I/O case io = [kind, part] says how the file system answers a pass:  *)
(*   "ok"     every step succeeds                                          *)
(*   "read"   the source log cannot be opened or read                      *)
(*   "dir"    the output directory cannot be created                       *)
(*   "write"  the write step fails: part = 0 before the file is opened,    *)
(*            part = k > 0 after the file was opened (and truncated, for a *)
(*            create) and k - 1 blocks of an append were written           *)
(***************************************************************************)
\* create_markdown_file: the directory afterwards
create_markdown_file(d, file_path, session, io) ==
    IF io.kind # "write" THEN WriteFile(d, file_path, generate_markdown(session))
    ELSE IF io.part = 0 THEN d
    ELSE WriteFile(d, file_path, EmptyFile)

\* append_messages: the directory afterwards
append_messages(d, file_path, messages, io) ==
    LET old == IF file_path \in DOMAIN d THEN d[file_path] ELSE EmptyFile
        written == IF io.kind # "write" THEN Len(messages)
                   ELSE Min(io.part - 1, Len(messages))
    IN  IF io.kind = "write" /\ io.part = 0 THEN d
        ELSE WriteFile(d, file_path,
                 [old EXCEPT !.blocks = @ \o FormatMessages(SubSeq(messages, 1, written))])

(***************************************************************************)
(* Sync-state store (src/src/session/state.rs, tracker.rs).  The store is  *)
(* the map session_id -> SessionState of ProjectState.                     *)
(***************************************************************************)
NoPath == [some |-> FALSE, v |-> ""]

SomePath(f) == [some |-> TRUE, v |-> f]

\* ProjectState::upsert_session
upsert_session(st, state) ==
    [sid \in (DOMAIN st) \cup {state.session_id} |->
        IF sid = state.session_id THEN state ELSE st[sid]]

\* a store that forgets the pass
update_session_lost(st, session_id, file_path, markdown_path, synced_count, now) == st

\* SessionTracker::update_session
update_session(st, session_id, file_path, markdown_path, synced_count, now) ==
    upsert_session(st, [session_id |-> session_id,
                        provider |-> ClaudeName,
                        file_path |-> SomePath(file_path),
                        markdown_path |-> markdown_path,
                        synced_message_count |-> synced_count,
                        last_sync_time |-> now])

\* the SessionState restore_from_disk builds from the artifact at path (lines 129-140)
RestoredState(d, path, now) ==
    LET fm == ParseFrontmatter(d[path].head)
    IN  [session_id |-> fm.session_id.v,
         provider |-> IF fm.provider.some THEN fm.provider.v ELSE ClaudeName,
         file_path |-> NoPath,
         markdown_path |-> path,
         synced_message_count |-> IF fm.message_count.some THEN fm.message_count.v ELSE 0,
         last_sync_time |-> now]

\* the artifacts restore_from_disk takes a state from: *.md files that can be
\* read and carry a session id
Recoverable(d, unreadable) ==
    {p \in DOMAIN d : p.ext = "md" /\ p \notin unreadable
                      /\ ParseFrontmatter(d[p].head).session_id.some}

\* restore_from_disk: the stores it can build.  The directory is read in an
\* unspecified order and a later artifact replaces an earlier one with the same
\* session id, so any artifact carrying the id can be the one that is kept.
restore_from_disk(d, unreadable, now) ==
    LET found == Recoverable(d, unreadable)
        sids == {ParseFrontmatter(d[p].head).session_id.v : p \in found}
    IN  {st \in [sids -> {RestoredState(d, p, now) : p \in found}] :
            \A sid \in sids : st[sid].session_id = sid}

(***************************************************************************)
(* Synchronizer (src/src/synchronizer.rs).                                 *)
(***************************************************************************)
Files == {"f1", "f2"}

\* Path::file_stem of a source log
FileStem(f) == IF f = "f1" THEN <<"s", "1">> ELSE <<"s", "2">>

\* the path of a new session's artifact (lines 73-85): time stamp of started_at
\* at second resolution (instants are whole seconds), provider name, slug
NewMarkdownPath(session) ==
    LET users == {i \in 1..Len(session.messages) : session.messages[i].role = "User"}
        slug == IF users # {}
                THEN slugify(session.messages[CHOOSE i \in users : \A j \in users : i <= j].content)
                ELSE session.session_id
    IN  [timestamp |-> session.started_at, provider |-> ClaudeName, slug |-> slug, ext |-> "md"]

\* a parse failure handed to the caller as an error
ParseErrorPropagated == "Err"

\* the status of a pass whose parse step failed (line 60)
ParseErrorStatus == "Failed"

\* a pass that never skips
NoMessagesNever(messages) == FALSE

\* session.messages.is_empty() (line 63)
NoMessages(messages) == messages = <<>>

\* a pass that ignores force
EffectiveSyncedCountNoForce(force, exists, recorded) ==
    IF ~exists /\ recorded > 0 THEN 0 ELSE recorded

\* a pass that does not look whether the artifact is there
EffectiveSyncedCountNoReset(force, exists, recorded) ==
    IF force THEN 0 ELSE recorded

\* step 3, force or missing file (lines 89-91): the count the pass works with
EffectiveSyncedCount(force, exists, recorded) ==
    IF force \/ (~exists /\ recorded > 0) THEN 0 ELSE recorded

\* a pass that writes every message again
NewMessagesNoSkip(messages, synced_count) == messages

\* step 4, the messages to write (lines 99-104)
NewMessages(messages, synced_count) ==
    SubSeq(messages, synced_count + 1, Len(messages))

Outcome(d, st, status, n) == [disk |-> d, store |-> st, status |-> status, n |-> n]

\* a pass that derives the file name again for a known session
CheckStateFresh(st, session) ==
    [markdown_path |-> NewMarkdownPath(session),
     synced_count |-> IF session.session_id \in DOMAIN st
                      THEN st[session.session_id].synced_message_count ELSE 0]

\* step 2, check state (lines 68-86): the recorded output path and count of a
\* known session, a new path and 0 for a new one
CheckState(st, session) ==
    IF session.session_id \in DOMAIN st
    THEN [markdown_path |-> st[session.session_id].markdown_path,
          synced_count |-> st[session.session_id].synced_message_count]
    ELSE [markdown_path |-> NewMarkdownPath(session), synced_count |-> 0]

\* a pass that always appends
WriteToFileAppend(d, markdown_path, session, synced_count, io) ==
    append_messages(d, markdown_path, NewMessages(session.messages, synced_count), io)

\* step 5, write to file (lines 115-119): the directory afterwards
WriteToFile(d, markdown_path, session, synced_count, io) ==
    IF synced_count = 0
    THEN create_markdown_file(d, markdown_path, session, io)
    ELSE append_messages(d, markdown_path, NewMessages(session.messages, synced_count), io)

\* an UpToDate return that stamps the entries of the store
UpToDateStamped(d, st) ==
    Outcome(d, [sid \in DOMAIN st |-> [st[sid] EXCEPT !.last_sync_time = @ + 1]],
            "UpToDate", 0)

\* the return of UpToDate (lines 95-97 and 106-108): nothing is written
UpToDate(d, st) == Outcome(d, st, "UpToDate", 0)

\* a failed write after which the store is updated all the same
WriteFailedRecorded(d, st, session_path, session, markdown_path, synced_count, io, now) ==
    Outcome(WriteToFile(d, markdown_path, session, synced_count, io),
            update_session(st, session.session_id, session_path, markdown_path,
                           Len(session.messages), now),
            "Err", 0)

\* the write step fails (the ? of lines 116 and 118): the error is returned
\* before update_session, the directory holds what the write left
WriteFailed(d, st, session_path, session, markdown_path, synced_count, io, now) ==
    Outcome(WriteToFile(d, markdown_path, session, synced_count, io), st, "Err", 0)

\* steps 4 to 6 (lines 93-140) with the effective synced_count
SyncFrom(d, st, session_path, session, markdown_path, synced_count, io, now) ==
    IF synced_count >= Len(session.messages) THEN UpToDate(d, st)
    ELSE IF NewMessages(session.messages, synced_count) = <<>>
    THEN UpToDate(d, st)
    ELSE IF io.kind = "dir" THEN Outcome(d, st, "Err", 0)
    ELSE IF io.kind = "write"
    THEN WriteFailed(d, st, session_path, session, markdown_path, synced_count, io, now)
    ELSE Outcome(WriteToFile(d, markdown_path, session, synced_count, io),
                 update_session(st, session.session_id, session_path, markdown_path,
                                Len(session.messages), now),
                 "Synced", Len(NewMessages(session.messages, synced_count)))

\* steps 2 and 3 (lines 67-91) for a parsed session with messages
SyncState(d, st, session_path, session, state, force, io, now) ==
    SyncFrom(d, st, session_path, session, state.markdown_path,
             EffectiveSyncedCount(force, state.markdown_path \in DOMAIN d, state.synced_count),
             io, now)

\* step 1 (lines 57-65) on the result of the parse
SyncParsed(d, st, session_path, parsed, force, io, now) ==
    IF ~parsed.ok THEN Outcome(d, st, ParseErrorStatus, 0)
    ELSE IF NoMessages(parsed.session.messages) THEN Outcome(d, st, "Skipped", 0)
    ELSE SyncState(d, st, session_path, parsed.session,
                   CheckState(st, parsed.session), force, io, now)

\* sync_session(session_path, force) on the directory d and the store st, the
\* source log holding lines.  The status "Err" is the Err return of the
\* function; the other four are the SyncStatus values of its Ok return.
sync_session(d, st, session_path, lines, force, io, now) ==
    SyncParsed(d, st, session_path,
               ClaudeParseSession(FileStem(session_path), lines, io.kind # "read", now),
               force, io, now)

\* one turn of the loop of sync_all (lines 45-49): Err becomes Failed
OneResult(session_path, r) ==
    [path |-> session_path,
     status |-> IF r.status = "Err" THEN "Failed" ELSE r.status,
     n |-> r.n]

RECURSIVE sync_all(_, _, _, _, _, _, _)

\* a loop that stops at the first file whose pass fails
SyncTurnAbort(session_path, r, sessions, logOf, force, ioOf, now) ==
    IF r.status \in {"Err", "Failed"}
    THEN [disk |-> r.disk, store |-> r.store, results |-> <<OneResult(session_path, r)>>]
    ELSE [sync_all(r.disk, r.store, sessions, logOf, force, ioOf, now)
             EXCEPT !.results = <<OneResult(session_path, r)>> \o @]

\* one turn of the loop (lines 44-50): r is what sync_session returned for
\* session_path, the remaining files are synced from the state it left
SyncTurn(session_path, r, sessions, logOf, force, ioOf, now) ==
    [sync_all(r.disk, r.store, sessions, logOf, force, ioOf, now)
        EXCEPT !.results = <<OneResult(session_path, r)>> \o @]

\* sync_all(force) over the candidate files sessions, in enumeration order
sync_all(d, st, sessions, logOf, force, ioOf, now) ==
    IF sessions = <<>> THEN [disk |-> d, store |-> st, results |-> <<>>]
    ELSE SyncTurn(Head(sessions),
                  sync_session(d, st, Head(sessions), logOf[Head(sessions)], force,
                               ioOf[Head(sessions)], now),
                  Tail(sessions), logOf, force, ioOf, now)

(***************************************************************************)
(* The environment: source logs, I/O cases, the clock.                     *)
(***************************************************************************)
ProjectDir == <<"/", "p">>

\* a project directory whose name holds the marker
MarkedDir == <<"/", "a", Dash, Dash, Dash, "b">>

Hi(f) == IF f = "f1" THEN <<"H", "i">> ELSE <<"h", "i">>

EventIn(f, cwd, type, ts, message) ==
    [blank |-> FALSE, json |-> TRUE, type |-> type,
     session_id |-> SomeStr(FileStem(f)), cwd |-> SomeStr(cwd),
     timestamp |-> SomeNum(ts), message |-> message]

Event(f, type, ts, message) == EventIn(f, ProjectDir, type, ts, message)

\* a line that is not a JSON event
BadLine ==
    [blank |-> FALSE, json |-> FALSE, type |-> "",
     session_id |-> NoneStr, cwd |-> NoneStr, timestamp |-> NoneNum, message |-> NoneMsg]

\* the kinds of line a source log is made of: a user turn, an assistant turn,
\* a user event without text, a malformed line
LineKinds == {"user", "assistant", "empty", "bad"}

\* the same, and a user turn of a session run in the marked directory
LineKindsAnyDir == LineKinds \cup {"marked"}

\* the kinds of line of the logs of a bulk pass
BulkLineKinds == {"user", "assistant", "bad"}

\* the line of the given kind in the log of file f
Line(f, kind) ==
    CASE kind = "user" -> Event(f, "user", 1, TextMessage(Hi(f)))
      [] kind = "assistant" -> Event(f, "assistant", 2, TextMessage(<<"o", "k">>))
      [] kind = "empty" -> Event(f, "user", 1, TextMessage(<<>>))
      [] kind = "marked" -> EventIn(f, MarkedDir, "user", 1, TextMessage(Hi(f)))
      [] OTHER -> BadLine

IoOk == [kind |-> "ok", part |-> 0]

IoKinds == {"ok", "read", "dir", "write"}

\* the I/O cases: only a failing write has parts
IsIoCase(kind, part) == kind = "write" \/ part = 0

Io(kind, part) == [kind |-> kind, part |-> part]

\* the I/O cases of a bulk pass: no failure, unreadable log, failing write
BulkIoKinds == {"ok", "read", "write"}

BulkIo(kind) == Io(kind, IF kind = "write" THEN 1 ELSE 0)

\* the instant of a pass
Now == 9

RECURSIVE SumLen(_, _)
SumLen(logOf, fs) ==
    IF fs = {} THEN 0
    ELSE LET f == CHOOSE x \in fs : TRUE
         IN  Len(logOf[f]) + SumLen(logOf, fs \ {f})

Fits(d) == \A p \in DOMAIN d : Len(d[p].blocks) <= MaxBlocks

(***************************************************************************)
(* The record of the last step.  For a pass it holds the call (op, file or *)
(* sessions, force, io), what it returned (status, n, results) and what it *)
(* found: prior = the synced count recorded for the session before the     *)
(* pass (-1 without an entry), existed = the artifact was there, prev =    *)
(* the step before it (the status of a pass on the same file, or the       *)
(* operation).  For a call of a pure function it holds the argument being *)
(* built (arg) and the result (out).                                       *)
(***************************************************************************)
Env(op) ==
    [op |-> op, file |-> "", sessions |-> <<>>, force |-> FALSE, io |-> IoOk,
     status |-> "", n |-> 0, results |-> <<>>, prior |-> -1, existed |-> FALSE,
     prev |-> "", arg |-> <<>>, out |-> <<>>]

\* the count recorded for the session of a parsed log, -1 without an entry
PriorCount(st, parsed) ==
    IF parsed.ok /\ parsed.session.session_id \in DOMAIN st
    THEN st[parsed.session.session_id].synced_message_count ELSE -1

\* the artifact the pass on a parsed log looks at is in the directory
ArtifactExisted(d, st, parsed) ==
    parsed.ok /\ CheckState(st, parsed.session).markdown_path \in DOMAIN d

\* what the step before a pass on file f was
StepBefore(f) ==
    IF last.op = "sync_session" /\ last.file = f THEN last.status ELSE last.op

(***************************************************************************)
(* The state machine.                                                      *)
(***************************************************************************)
\* SessionTracker::new over an empty output directory, no source log yet
\* the periodic loop: where it is (at), what its last pass returned (result)
\* and whether that was reported as an error; off before watch is called
WatchOff == [at |-> "off", result |-> "", reported |-> FALSE]

\* a sync_session call: where it is (at), its local variables (session,
\* state, markdown_path, synced_count) and what it returned (status, n)
NoCall ==
    [at |-> "idle", session |-> <<>>, state |-> <<>>, markdown_path |-> <<>>,
     synced_count |-> 0, status |-> "", n |-> 0]

NoCalls == [f \in Files |-> NoCall]

Init ==
    /\ logs = [f \in Files |-> <<>>]
    /\ disk = <<>>
    /\ store \in restore_from_disk(disk, {}, Now)
    /\ last = Env("new")
    /\ watch = WatchOff
    /\ calls = NoCalls

\* one call of Synchronizer::sync_session
SyncSession(f, force, kind, part) ==
    LET io == Io(kind, part)
        r == sync_session(disk, store, f, logs[f], force, io, Now)
        parsed == ClaudeParseSession(FileStem(f), logs[f], io.kind # "read", Now)
    IN  /\ IsIoCase(kind, part)
        /\ Fits(r.disk)
        /\ disk' = r.disk
        /\ store' = r.store
        /\ last' = [Env("sync_session") EXCEPT
                      !.file = f, !.force = force, !.io = io,
                      !.status = r.status, !.n = r.n,
                      !.prior = PriorCount(store, parsed),
                      !.existed = ArtifactExisted(disk, store, parsed),
                      !.prev = StepBefore(f)]
        /\ UNCHANGED <<logs, watch, calls>>

\* one call of Synchronizer::sync_all; sessions is what get_all_sessions returned
SyncAll(sessions, force, kind1, kind2) ==
    LET ioOf == [f \in Files |-> BulkIo(IF f = "f1" THEN kind1 ELSE kind2)]
        r == sync_all(disk, store, sessions, logs, force, ioOf, Now)
    IN  /\ Fits(r.disk)
        /\ disk' = r.disk
        /\ store' = r.store
        /\ last' = [Env("sync_all") EXCEPT
                      !.sessions = sessions, !.force = force, !.io = ioOf,
                      !.results = r.results]
        /\ UNCHANGED <<logs, watch, calls>>

\* the assistant CLI appends a line to a source log (cap bounds the model)
AppendLine(f, kind, cap) ==
    /\ SumLen(logs, Files) < cap
    /\ logs' = [logs EXCEPT ![f] = Append(@, Line(f, kind))]
    /\ last' = Env("append_line")
    /\ UNCHANGED <<disk, store, watch, calls>>

\* a source log is rewritten without its last line
RewriteLog(f) ==
    /\ logs[f] # <<>>
    /\ logs' = [logs EXCEPT ![f] = SubSeq(@, 1, Len(@) - 1)]
    /\ last' = Env("rewrite_log")
    /\ UNCHANGED <<disk, store, watch, calls>>

\* an output artifact is removed from the output directory
DeleteArtifact(path) ==
    /\ path \in DOMAIN disk
    /\ disk' = [p \in (DOMAIN disk) \ {path} |-> disk[p]]
    /\ last' = Env("delete_artifact")
    /\ UNCHANGED <<logs, store, watch, calls>>

\* the process is restarted: SessionTracker::new builds the store from the
\* output directory alone
Restart ==
    /\ store' \in restore_from_disk(disk, {}, Now)
    /\ last' = Env("restart")
    /\ UNCHANGED <<logs, disk, watch, calls>>

\* One process and its environment, every I/O step succeeding: passes on one
\* source log that grows and is rewritten, artifacts removed, restarts.
Next ==
    \/ \E force \in BOOLEAN : SyncSession("f1", force, "ok", 0)
    \/ \E kind \in LineKinds : AppendLine("f1", kind, MaxCoreLog)
    \/ RewriteLog("f1")
    \/ \E path \in DOMAIN disk : DeleteArtifact(path)
    \/ Restart

Spec == Init /\ [][Next]_vars

\* One process, non-forced passes on one source log that only grows.
NextGrow ==
    \/ SyncSession("f1", FALSE, "ok", 0)
    \/ \E kind \in LineKinds : AppendLine("f1", kind, MaxLog)
    \/ \E path \in DOMAIN disk : DeleteArtifact(path)

SpecGrow == Init /\ [][NextGrow]_vars

\* Non-forced passes on one source log that only grows, and restarts.
NextResume ==
    \/ SyncSession("f1", FALSE, "ok", 0)
    \/ \E kind \in LineKinds : AppendLine("f1", kind, MaxLog)
    \/ Restart

SpecResume == Init /\ [][NextResume]_vars

\* The same, the session being run in any project directory.
NextRecover ==
    \/ SyncSession("f1", FALSE, "ok", 0)
    \/ \E kind \in LineKindsAnyDir : AppendLine("f1", kind, MaxLog)
    \/ Restart

SpecRecover == Init /\ [][NextRecover]_vars

\* Passes on one growing source log under every I/O case.
NextFaults ==
    \/ \E force \in BOOLEAN, kind \in IoKinds, part \in 0..MaxPart :
           SyncSession("f1", force, kind, part)
    \/ \E kind \in LineKinds : AppendLine("f1", kind, MaxCoreLog)

SpecFaults == Init /\ [][NextFaults]_vars

Orders == {<<"f1", "f2">>, <<"f2", "f1">>}

\* Bulk passes over two growing source logs.
NextBulk ==
    \/ \E sessions \in Orders, force \in BOOLEAN, kind1 \in BulkIoKinds, kind2 \in BulkIoKinds :
           SyncAll(sessions, force, kind1, kind2)
    \/ \E f \in Files, kind \in BulkLineKinds : AppendLine(f, kind, MaxCoreLog)

SpecBulk == Init /\ [][NextBulk]_vars

(***************************************************************************)
(* Properties.                                                             *)
(***************************************************************************)
\* the parse of the source log of file f when it can be read
Parsed(f) == ClaudeParseSession(FileStem(f), logs[f], TRUE, Now)

\* the session the last pass parsed, and the path the store records for it
LastSession == Parsed(last.file).session

LastPath == store[LastSession.session_id].markdown_path

\* number of positions of blocks that hold block b
Count(blocks, b) == Cardinality({i \in 1..Len(blocks) : blocks[i] = b})

\* C1: within one process, after every non-forced pass on a growing log that
\* returns Synced or UpToDate, the artifact of the session holds exactly the
\* messages parsed from the log at that pass, each once and in source order.
C1_ArtifactIsLog ==
    (last.op = "sync_session" /\ last.status \in {"Synced", "UpToDate"}) =>
        /\ LastSession.session_id \in DOMAIN store
        /\ LastPath \in DOMAIN disk
        /\ disk[LastPath].blocks = FormatMessages(LastSession.messages)

\* a pass appended the third message of a log to an artifact holding two
C1_Witness ==
    /\ last.op = "sync_session" /\ last.status = "Synced" /\ last.n = 1
    /\ last.prior = 2 /\ last.existed
    /\ Len(LastSession.messages) = 3
    /\ disk[LastPath].blocks = FormatMessages(LastSession.messages)

\* the session a pass on file f parses, and its messages
SessionOf(f) == Parsed(f).session

MessagesOf(f) == Parsed(f).session.messages

\* the number of blocks in the artifact recorded for session sid, 0 without one
BlocksOf(d, st, sid) ==
    IF sid \in DOMAIN st /\ st[sid].markdown_path \in DOMAIN d
    THEN Len(d[st[sid].markdown_path].blocks)
    ELSE 0

\* the messages of file f that are not in the artifact of its session
Unsynced(f) ==
    Len(MessagesOf(f)) - BlocksOf(disk, store, SessionOf(f).session_id)

C2_Step ==
    (last'.op = "sync_session" /\ ~last'.force /\ Parsed(last'.file).ok
        /\ MessagesOf(last'.file) # <<>>) =>
        /\ Unsynced(last'.file) > 0 =>
               (last'.status = "Synced" /\ last'.n = Unsynced(last'.file))
        /\ (last.op = "sync_session" /\ last.file = last'.file /\ last.status = "Synced") =>
               /\ last'.status = "UpToDate"
               /\ disk' = disk
               /\ disk'[store'[SessionOf(last'.file).session_id].markdown_path].blocks
                      = FormatMessages(MessagesOf(last'.file))

\* C2: a non-forced pass on a log with n > 0 unsynced messages returns
\* Synced{n}; a second non-forced pass on the same unchanged log right after a
\* Synced one returns UpToDate and leaves the output directory unchanged, the
\* artifact holding every source message once.
C2_Idempotent == [][C2_Step]_vars

\* a pass returned UpToDate right after a pass that synced a log of two messages
C2_Witness ==
    /\ last.op = "sync_session" /\ last.status = "UpToDate" /\ last.prev = "Synced"
    /\ Len(LastSession.messages) >= 2
    /\ disk[LastPath].blocks = FormatMessages(LastSession.messages)

\* C3: with restarts between non-forced passes on a growing log, after each
\* pass that returns Synced or UpToDate the artifact holds exactly the messages
\* of the log, and no artifact ever holds a message more often than the log.
C3_NoDuplicates ==
    /\ (last.op = "sync_session" /\ last.status \in {"Synced", "UpToDate"}) =>
           /\ LastSession.session_id \in DOMAIN store
           /\ LastPath \in DOMAIN disk
           /\ disk[LastPath].blocks = FormatMessages(LastSession.messages)
    /\ \A p \in DOMAIN disk : \A i \in 1..Len(disk[p].blocks) :
           Count(disk[p].blocks, disk[p].blocks[i])
               <= Count(FormatMessages(MessagesOf("f1")), disk[p].blocks[i])

(***************************************************************************)
(* The metadata block as the artifact format defines it: the key: value    *)
(* lines between the marker line at the top and the next marker line.      *)
(***************************************************************************)
ClosingLines(ls) == {i \in 2..Len(ls) : ls[i] = Marker}

BlockOf(ls) ==
    IF ls # <<>> /\ ls[1] = Marker /\ ClosingLines(ls) # {}
    THEN SubSeq(ls, 2, (CHOOSE i \in ClosingLines(ls) : \A j \in ClosingLines(ls) : i <= j) - 1)
    ELSE <<>>

\* the values the block of head gives for key
FieldValues(head, key) ==
    {Trim(Tail(BlockOf(SplitLines(head))[i])) :
        i \in {j \in 1..Len(BlockOf(SplitLines(head))) :
                  /\ BlockOf(SplitLines(head))[j] # <<>>
                  /\ BlockOf(SplitLines(head))[j][1] = key}}

\* the block of head says key: value
HeadSays(head, key, value) == value \in FieldValues(head, key)

C4_Step ==
    (last.op = "restart" /\ last'.op = "sync_session" /\ ~last'.force
        /\ Parsed(last'.file).ok) =>
        \A p \in DOMAIN disk : \A k \in 1..(Len(MessagesOf(last'.file)) - 1) :
            (/\ HeadSays(disk[p].head, "session_id:", SessionOf(last'.file).session_id)
             /\ HeadSays(disk[p].head, "message_count:", ToDigits(k)))
            => /\ last'.status = "Synced"
               /\ last'.n = Len(MessagesOf(last'.file)) - k
               /\ p \in DOMAIN disk'
               /\ disk'[p] = [disk[p] EXCEPT !.blocks = @ \o FormatMessages(
                                 SubSeq(MessagesOf(last'.file), k + 1,
                                        Len(MessagesOf(last'.file))))]

\* C4: right after a restart, a non-forced pass on a log of m messages whose
\* artifact says message_count: k with k < m returns Synced{m - k} and
\* appends the messages k+1..m to the artifact, the rest of it unchanged.
C4_ResumeAppends == [][C4_Step]_vars

C5_Step ==
    (/\ last'.op = "sync_session" /\ last'.force
     /\ Parsed(last'.file).ok /\ MessagesOf(last'.file) # <<>>
     /\ SessionOf(last'.file).session_id \in DOMAIN store
     /\ store[SessionOf(last'.file).session_id].synced_message_count
            = Len(MessagesOf(last'.file))
     /\ store[SessionOf(last'.file).session_id].markdown_path \in DOMAIN disk) =>
        /\ last'.status = "Synced"
        /\ last'.n = Len(MessagesOf(last'.file))
        /\ disk'[store[SessionOf(last'.file).session_id].markdown_path]
               = generate_markdown(SessionOf(last'.file))

\* C5: a forced pass on a session whose recorded count equals its message
\* count and whose artifact is present returns Synced{total} and leaves the
\* artifact equal to the full session written from scratch.
C5_ForceRewrites == [][C5_Step]_vars

\* a forced pass rewrote the artifact of a fully synced session of two messages
C5_Witness ==
    /\ last.op = "sync_session" /\ last.force /\ last.status = "Synced"
    /\ last.existed /\ last.prior = 2 /\ last.n = 2
    /\ disk[LastPath] = generate_markdown(LastSession)

C6_Step ==
    (last'.op = "sync_session" /\ Parsed(last'.file).ok
        /\ MessagesOf(last'.file) = <<>>) =>
        /\ last'.status = "Skipped"
        /\ disk' = disk
        /\ store' = store

\* C6: a pass, forced or not, on a log that parses to a session without
\* messages returns Skipped and changes neither the output directory nor the
\* store.
C6_ZeroMessageSkip == [][C6_Step]_vars

\* a forced pass skipped a non-empty log of a session that has an entry and
\* an artifact
C6_Witness ==
    /\ last.op = "sync_session" /\ last.force /\ last.status = "Skipped"
    /\ logs[last.file] # <<>>
    /\ last.prior >= 1 /\ last.existed

\* the last pass had messages to write
WriteNeeded ==
    /\ Parsed(last.file).ok
    /\ MessagesOf(last.file) # <<>>
    /\ (last.force \/ ~last.existed \/ last.prior < Len(MessagesOf(last.file)))

BulkOutcomeOk(f, io, status) ==
    IF io.kind = "read" \/ ~Parsed(f).ok THEN status = "Failed"
    ELSE IF MessagesOf(f) = <<>> THEN status = "Skipped"
    ELSE IF io.kind = "ok"
    THEN /\ status \in {"Synced", "UpToDate"}
         /\ SessionOf(f).session_id \in DOMAIN store
         /\ store[SessionOf(f).session_id].synced_message_count = Len(MessagesOf(f))
    ELSE status \in {"Failed", "UpToDate"}

C9_Step ==
    \A sid \in (DOMAIN store) \cap (DOMAIN store') :
        store'[sid].synced_message_count < store[sid].synced_message_count =>
            /\ last'.op = "sync_session"
            /\ (last'.force \/ ~last'.existed)

\* C9: the synced count the store holds for a session id decreases only in a
\* pass that is forced or finds the artifact missing.
C9_CountMonotone == [][C9_Step]_vars

IsInteger(v) == v # <<>> /\ \A i \in 1..Len(v) : IsDigit(v[i])

\* the message_count field of the block of head, 0 when absent or no integer
CountField(head) ==
    IF \E v \in FieldValues(head, "message_count:") : IsInteger(v)
    THEN DigitsValue(CHOOSE v \in FieldValues(head, "message_count:") : IsInteger(v))
    ELSE 0

\* C10: a store built over an output directory holds exactly one entry for each
\* session id found in the metadata blocks of its .md artifacts, with the
\* artifact as output path and its message_count field as synced count.
C10_StateRecovery ==
    last.op = "restart" =>
        /\ DOMAIN store =
               UNION {FieldValues(disk[p].head, "session_id:") :
                         p \in {q \in DOMAIN disk : q.ext = "md"}}
        /\ \A sid \in DOMAIN store : \E p \in DOMAIN disk :
               /\ p.ext = "md"
               /\ HeadSays(disk[p].head, "session_id:", sid)
               /\ store[sid].markdown_path = p
               /\ store[sid].synced_message_count = CountField(disk[p].head)

(***************************************************************************)
(* Metadata round trip: create_markdown_file followed by parse_frontmatter *)
(* for sessions whose id and project path are typed character by           *)
(* character.                                                              *)
(***************************************************************************)
\* the i-th message of a session that is built directly
Msg(i) ==
    [role |-> IF i % 2 = 1 THEN "User" ELSE "Assistant",
     content |-> <<"m">> \o ToDigits(i), timestamp |-> i, tool_calls |-> <<>>]

\* the session with id "s" + id, project path "/" + project and n messages
TypedSession(id, project, n) ==
    [session_id |-> <<"s">> \o id, provider |-> ClaudeName,
     project_path |-> <<"/">> \o project,
     started_at |-> 1, updated_at |-> n, messages |-> [i \in 1..n |-> Msg(i)]]

\* the characters typed into ids and paths
TypedChars == {"a", Dash}

\* no call yet, two empty texts
InitText ==
    /\ logs = [f \in Files |-> <<>>]
    /\ disk = <<>>
    /\ store = <<>>
    /\ last = [Env("new") EXCEPT !.arg = <<<<>>, <<>>>>]
    /\ watch = WatchOff
    /\ calls = NoCalls

\* one more character of the k-th text of the argument
TypeChar(k, c) ==
    /\ last.op \in {"new", "type"}
    /\ Len(last.arg[1]) + Len(last.arg[2]) < MaxText
    /\ last' = [Env("type") EXCEPT
                  !.arg = [last.arg EXCEPT ![k] = Append(@, c)]]
    /\ UNCHANGED <<logs, disk, store, watch, calls>>

\* create_markdown_file for the typed session with n messages, then
\* parse_frontmatter on the file it wrote
RoundTrip(n) ==
    LET session == TypedSession(last.arg[1], last.arg[2], n)
    IN  /\ last.op \in {"new", "type"}
        /\ disk' = create_markdown_file(disk, NewMarkdownPath(session), session, IoOk)
        /\ last' = [Env("round_trip") EXCEPT
                      !.arg = last.arg, !.n = n,
                      !.out = ParseFrontmatter(disk'[NewMarkdownPath(session)].head)]
        /\ UNCHANGED <<logs, store, watch, calls>>

NextRoundTrip ==
    \/ \E k \in 1..2, c \in TypedChars : TypeChar(k, c)
    \/ \E n \in 0..MaxMsgs : RoundTrip(n)

SpecRoundTrip == InitText /\ [][NextRoundTrip]_vars

\* C11: parse_frontmatter on the artifact create_markdown_file wrote for a
\* session yields the session's id, its provider and its number of messages,
\* whatever the id and the project path are.
C11_RoundTrip ==
    last.op = "round_trip" =>
        /\ last.out.session_id = SomeStr(<<"s">> \o last.arg[1])
        /\ last.out.provider = SomeStr(ClaudeName)
        /\ last.out.message_count = SomeNum(last.n)

(***************************************************************************)
(* The periodic loop (src/src/watcher/file_watcher.rs).                    *)
(***************************************************************************)
PassResult(d, st, result) == [disk |-> d, store |-> st, result |-> result]

\* what find_latest_session can answer: an error, no file, the latest file
Lookups == {"err", "none", "f1"}

\* a pass that syncs every candidate file
sync_latest_all(d, st, lookup, logOf, io, now) ==
    IF lookup = "err" THEN PassResult(d, st, "Err")
    ELSE IF lookup = "none" THEN PassResult(d, st, "Ok")
    ELSE LET r == sync_all(d, st, <<"f1", "f2">>, logOf, FALSE, [f \in Files |-> io], now)
         IN  PassResult(r.disk, r.store, "Ok")

\* sync_latest (lines 56-70): lookup is the answer of find_latest_session
sync_latest(d, st, lookup, logOf, io, now) ==
    IF lookup = "err" THEN PassResult(d, st, "Err")
    ELSE IF lookup = "none" THEN PassResult(d, st, "Ok")
    ELSE LET r == sync_session(d, st, lookup, logOf[lookup], FALSE, io, now)
         IN  PassResult(r.disk, r.store, IF r.status = "Err" THEN "Err" ELSE "Ok")

\* a loop that hands the error of a pass to its caller
WatchTurnReturn(result) ==
    [at |-> IF result = "Err" THEN "returned" ELSE "tick",
     result |-> result, reported |-> FALSE]

\* the body of the loop after the pass (lines 49-51): an error is reported,
\* then the loop waits for the next tick
WatchTurn(result) ==
    [at |-> "tick", result |-> result, reported |-> result = "Err"]

\* watch is called (lines 38-44)
StartWatch ==
    /\ watch.at = "off"
    /\ watch' = [watch EXCEPT !.at = "tick"]
    /\ last' = Env("watch")
    /\ UNCHANGED <<logs, disk, store, calls>>

\* the cases of a pass: the I/O case matters only when a file is found
IsPassCase(lookup, kind) == lookup = "f1" \/ kind = "ok"

\* interval.tick() completes (line 47)
Tick ==
    /\ watch.at = "tick"
    /\ watch' = [watch EXCEPT !.at = "pass"]
    /\ last' = Env("tick")
    /\ UNCHANGED <<logs, disk, store, calls>>

\* the pass of one turn of the loop (lines 49-51); a failing step of the
\* pass fails before it has written anything
SyncLatest(lookup, kind) ==
    LET r == sync_latest(disk, store, lookup, logs, Io(kind, 0), Now)
    IN  /\ watch.at = "pass"
        /\ IsPassCase(lookup, kind)
        /\ Fits(r.disk)
        /\ disk' = r.disk
        /\ store' = r.store
        /\ watch' = WatchTurn(r.result)
        /\ last' = [Env("sync_latest") EXCEPT
                      !.file = lookup, !.io = Io(kind, 0),
                      !.status = r.result, !.prev = watch.result]
        /\ UNCHANGED <<logs, calls>>

\* The periodic loop over one growing source log, under every I/O case.
NextWatch ==
    \/ StartWatch
    \/ Tick
    \/ \E lookup \in Lookups, kind \in IoKinds : SyncLatest(lookup, kind)
    \/ \E kind \in LineKinds : AppendLine("f1", kind, MaxLog)

SpecWatch == Init /\ [][NextWatch]_vars

\* the timer of the loop fires
TimerFires == watch.at = "tick" /\ watch' = [watch EXCEPT !.at = "pass"]

\* the calls of a pass return, with a value or with an error
PassReturns == watch.at = "pass" /\ \E result \in {"Ok", "Err"} : watch' = WatchTurn(result)

\* The same, the timer firing and the calls of a pass returning.
SpecWatchFair == SpecWatch /\ WF_watch(TimerFires) /\ WF_watch(PassReturns)

\* a pass has just returned an error
PassFailed == last.op = "sync_latest" /\ last.status = "Err"

Returned(call, status, n) == [call EXCEPT !.at = "done", !.status = status, !.n = n]

\* step 1 (lines 57-65): the call after the parse
CallParsed(call, parsed) ==
    IF ~parsed.ok THEN Returned(call, ParseErrorStatus, 0)
    ELSE IF NoMessages(parsed.session.messages) THEN Returned(call, "Skipped", 0)
    ELSE [call EXCEPT !.at = "read", !.session = parsed.session]

\* steps 2 to 4 (lines 67-108) of a non-forced call: the clone of the store,
\* the output path and the effective synced_count
CallChecked(call, d, st, check) ==
    IF EffectiveSyncedCount(FALSE, check.markdown_path \in DOMAIN d, check.synced_count)
          >= Len(call.session.messages)
    THEN Returned([call EXCEPT !.state = st], "UpToDate", 0)
    ELSE [call EXCEPT !.at = "write", !.state = st,
                      !.markdown_path = check.markdown_path,
                      !.synced_count = EffectiveSyncedCount(
                          FALSE, check.markdown_path \in DOMAIN d, check.synced_count)]

\* step 6 (lines 121-129): update_session on the shared store
CallUpdate(st, call, session_path, now) ==
    update_session(st, call.session.session_id, session_path,
                   call.markdown_path, Len(call.session.messages), now)

\* the step record of a round: arg keeps the directory and the store the
\* round started from
RoundStep(op, f) == [Env(op) EXCEPT !.file = f, !.arg = last.arg]

\* both calls are started
Spawn ==
    /\ \A f \in Files : calls[f].at = "idle"
    /\ calls' = [f \in Files |-> [NoCall EXCEPT !.at = "start"]]
    /\ last' = [Env("spawn") EXCEPT !.arg = <<disk, store>>]
    /\ UNCHANGED <<logs, disk, store, watch>>

\* step 1 of the call on f: parse_session
CallParse(f) ==
    /\ calls[f].at = "start"
    /\ calls' = [calls EXCEPT ![f] =
                    CallParsed(@, ClaudeParseSession(FileStem(f), logs[f], TRUE, Now))]
    /\ last' = RoundStep("parse_session", f)
    /\ UNCHANGED <<logs, disk, store, watch>>

\* steps 2 to 4 of the call on f: get_state, the check of the artifact
CallGetState(f) ==
    /\ calls[f].at = "read"
    /\ calls' = [calls EXCEPT ![f] =
                    CallChecked(@, disk, store, CheckState(store, calls[f].session))]
    /\ last' = RoundStep("get_state", f)
    /\ UNCHANGED <<logs, disk, store, watch>>

\* step 5 of the call on f: create_markdown_file or append_messages
CallWrite(f) ==
    /\ calls[f].at = "write"
    /\ disk' = WriteToFile(disk, calls[f].markdown_path, calls[f].session,
                           calls[f].synced_count, IoOk)
    /\ Fits(disk')
    /\ calls' = [calls EXCEPT ![f].at = "update"]
    /\ last' = RoundStep("write", f)
    /\ UNCHANGED <<logs, store, watch>>

\* step 6 of the call on f: update_session, then the call returns
CallUpdateSession(f) ==
    /\ calls[f].at = "update"
    /\ store' = CallUpdate(store, calls[f], f, Now)
    /\ calls' = [calls EXCEPT ![f] =
                    Returned(@, "Synced",
                             Len(NewMessages(calls[f].session.messages, calls[f].synced_count)))]
    /\ last' = RoundStep("update_session", f)
    /\ UNCHANGED <<logs, disk, watch>>

\* both calls have returned and are joined
Join ==
    /\ \A f \in Files : calls[f].at = "done"
    /\ calls' = NoCalls
    /\ last' = Env("join")
    /\ UNCHANGED <<logs, disk, store, watch>>

\* Two calls on different source logs at a time, their steps interleaved; the
\* logs grow between the rounds.
NextConcurrent ==
    \/ Spawn
    \/ \E f \in Files : CallParse(f)
    \/ \E f \in Files : CallGetState(f)
    \/ \E f \in Files : CallWrite(f)
    \/ \E f \in Files : CallUpdateSession(f)
    \/ Join
    \/ \E f \in Files, kind \in BulkLineKinds :
           /\ \A g \in Files : calls[g].at = "idle"
           /\ AppendLine(f, kind, MaxLog)

SpecConcurrent == Init /\ [][NextConcurrent]_vars

\* The same, artifacts being removed from the output directory between the
\* rounds.
NextConcurrentAny ==
    \/ NextConcurrent
    \/ \E path \in DOMAIN disk :
           /\ \A g \in Files : calls[g].at = "idle"
           /\ DeleteArtifact(path)

SpecConcurrentAny == Init /\ [][NextConcurrentAny]_vars

\* the directory and the store after the calls have run one after the other,
\* in the given order, from the directory d and the store st
Sequential(d, st, order) ==
    LET r == sync_all(d, st, order, logs, FALSE, [f \in Files |-> IoOk], Now)
    IN  <<r.disk, r.store>>

BothReturned == \A f \in Files : calls[f].at = "done"

\* C13: when two concurrent calls on different sessions have returned, the
\* artifacts and the store entries are those of running the two calls one
\* after the other, in one of the two orders, whatever the interleaving of
\* their steps was; the update of neither session is lost.
C13_AsSequential ==
    BothReturned =>
        \E order \in Orders :
            <<disk, store>> = Sequential(last.arg[1], last.arg[2], order)

(***************************************************************************)
(* Codex log parser (src/src/providers/codex.rs).  A log line is a record: *)
(*   blank, json   as for Claude (a line that is not JSON is skipped)      *)
(*   event_type    the event's "type"                                      *)
(*   timestamp     optional instant (absent: unparseable, replaced by now) *)
(*   payload       optional [role, cwd, content]: optional role, optional  *)
(*                 cwd, optional list of content items [text]              *)
(***************************************************************************)
CodexName == <<"c", "o", "d", "e", "x">>

\* str::contains for a tag that is one token of the text
Contains(content, tag) == \E i \in 1..Len(content) : content[i] = tag

\* find_map(|item| item.text): the first text there is (lines 267-270)
FirstText(items) ==
    IF \E i \in 1..Len(items) : items[i].text.some
    THEN items[CHOOSE i \in 1..Len(items) :
                   items[i].text.some /\ \A j \in 1..(i - 1) : ~items[j].text.some].text.v
    ELSE <<>>

\* CodexProvider::parse_response_item (lines 255-304)
CodexParseResponseItem(payload, timestamp, now) ==
    IF ~payload.role.some \/ payload.role.v \notin {"user", "assistant"} THEN NoMessage
    ELSE LET role == IF payload.role.v = "user" THEN "User" ELSE "Assistant"
             content == IF payload.content.some THEN FirstText(payload.content.v) ELSE <<>>
         IN  IF content = <<>> THEN NoMessage
             ELSE IF role = "User"
                     /\ (Contains(content, "<environment_context>")
                         \/ Contains(content, "<INSTRUCTIONS>")
                         \/ Contains(content, "# AGENTS.md instructions"))
             THEN NoMessage
             ELSE [some |-> TRUE,
                   v |-> [role |-> role, content |-> content,
                          timestamp |-> IF timestamp.some THEN timestamp.v ELSE now,
                          tool_calls |-> <<>>]]

\* a parser that drops a message equal to any earlier one
CodexIsDuplicateAnywhere(messages, msg) ==
    \E i \in 1..Len(messages) :
        messages[i].role = msg.role /\ messages[i].content = msg.content

\* is_duplicate (lines 169-172): same role and content as the last message
CodexIsDuplicate(messages, msg) ==
    /\ messages # <<>>
    /\ messages[Len(messages)].role = msg.role
    /\ messages[Len(messages)].content = msg.content

\* a loop that keeps one message for consecutive turns of the same role
CodexAcceptMerge(acc, msg) ==
    [acc EXCEPT !.started_at = IF acc.messages = <<>> THEN msg.timestamp ELSE @,
                !.messages = IF @ # <<>> /\ @[Len(@)].role = msg.role
                             THEN [@ EXCEPT ![Len(@)] = msg] ELSE Append(@, msg)]

\* the "response_item" arm of the loop (lines 159-176) for a message
CodexAccept(acc, msg) ==
    [acc EXCEPT !.started_at = IF acc.messages = <<>> THEN msg.timestamp ELSE @,
                !.messages = IF CodexIsDuplicate(acc.messages, msg) THEN @ ELSE Append(@, msg)]

\* one JSON event of the loop (lines 143-181)
CodexEventStep(acc, event, stem, now) ==
    LET acc1 == IF acc.session_id = <<>> THEN [acc EXCEPT !.session_id = stem] ELSE acc
    IN  IF event.event_type \in {"session_meta", "turn_context"}
        THEN IF event.payload.some /\ event.payload.v.cwd.some
             THEN [acc1 EXCEPT !.project_path = event.payload.v.cwd.v]
             ELSE acc1
        ELSE IF event.event_type = "response_item" /\ event.payload.some
        THEN IF CodexParseResponseItem(event.payload.v, event.timestamp, now).some
             THEN CodexAccept(acc1, CodexParseResponseItem(event.payload.v, event.timestamp, now).v)
             ELSE acc1
        ELSE acc1

RECURSIVE CodexParseLinesStop(_, _, _, _)
\* a loop that ends at the first line that is not an event
CodexParseLinesStop(acc, lines, stem, now) ==
    IF lines = <<>> THEN acc
    ELSE IF Head(lines).blank THEN CodexParseLinesStop(acc, Tail(lines), stem, now)
    ELSE IF ~Head(lines).json THEN acc
    ELSE CodexParseLinesStop(CodexEventStep(acc, Head(lines), stem, now), Tail(lines), stem, now)

RECURSIVE CodexParseLines(_, _, _, _)
\* the loop of parse_session (lines 138-182)
CodexParseLines(acc, lines, stem, now) ==
    IF lines = <<>> THEN acc
    ELSE IF Head(lines).blank \/ ~Head(lines).json
    THEN CodexParseLines(acc, Tail(lines), stem, now)
    ELSE CodexParseLines(CodexEventStep(acc, Head(lines), stem, now), Tail(lines), stem, now)

\* the ChatSession built after the loop (lines 184-191)
CodexSession(acc) ==
    [session_id |-> acc.session_id, provider |-> CodexName,
     project_path |-> acc.project_path, started_at |-> acc.started_at,
     updated_at |-> IF acc.messages # <<>>
                    THEN acc.messages[Len(acc.messages)].timestamp
                    ELSE acc.started_at,
     messages |-> acc.messages]

\* CodexProvider::parse_session; the result is [ok, session]
CodexParseSession(stem, lines, readable, now) ==
    [ok |-> readable,
     session |-> CodexSession(CodexParseLines(
                     [session_id |-> <<>>, project_path |-> <<>>,
                      started_at |-> now, messages |-> <<>>],
                     IF readable THEN lines ELSE <<>>, stem, now))]

(***************************************************************************)
(* Gemini session parser (src/src/providers/gemini.rs).  A session file is *)
(* a record [json, session_id, start_time, last_updated, messages], json = *)
(* the file deserialises; a message is [message_type, content, timestamp]. *)
(***************************************************************************)
GeminiName == <<"g", "e", "m", "i", "n", "i">>

\* a parser that keeps messages without content
GeminiParseMessageKeepEmpty(msg, now) ==
    IF msg.message_type \notin {"user", "gemini"} THEN NoMessage
    ELSE [some |-> TRUE,
          v |-> [role |-> IF msg.message_type = "user" THEN "User" ELSE "Assistant",
                 content |-> msg.content,
                 timestamp |-> IF msg.timestamp.some THEN msg.timestamp.v ELSE now,
                 tool_calls |-> <<>>]]

\* GeminiProvider::parse_message (lines 111-153)
GeminiParseMessage(msg, now) ==
    IF msg.message_type \notin {"user", "gemini"} THEN NoMessage
    ELSE IF msg.content = <<>> THEN NoMessage
    ELSE [some |-> TRUE,
          v |-> [role |-> IF msg.message_type = "user" THEN "User" ELSE "Assistant",
                 content |-> msg.content,
                 timestamp |-> IF msg.timestamp.some THEN msg.timestamp.v ELSE now,
                 tool_calls |-> <<>>]]

RECURSIVE GeminiMessages(_, _)
\* filter_map over the messages of the file (lines 69-73)
GeminiMessages(msgs, now) ==
    IF msgs = <<>> THEN <<>>
    ELSE IF GeminiParseMessage(Head(msgs), now).some
    THEN <<GeminiParseMessage(Head(msgs), now).v>> \o GeminiMessages(Tail(msgs), now)
    ELSE GeminiMessages(Tail(msgs), now)

\* GeminiProvider::parse_session; the result is [ok, session]
GeminiParseSession(file, project_path, readable, now) ==
    [ok |-> readable /\ file.json,
     session |-> [session_id |-> file.session_id, provider |-> GeminiName,
                  project_path |-> project_path,
                  started_at |-> IF file.start_time.some THEN file.start_time.v ELSE now,
                  updated_at |-> IF file.last_updated.some THEN file.last_updated.v
                                 ELSE IF file.start_time.some THEN file.start_time.v ELSE now,
                  messages |-> IF readable /\ file.json
                               THEN GeminiMessages(file.messages, now) ELSE <<>>]]

(***************************************************************************)
(* Raw logs for the three parsers.  A raw event is given by who speaks     *)
(* (role) and what it carries (kind):                                      *)
(*   plain   the text x            other   the text y                      *)
(*   parts   the text x after a content item without text                  *)
(*   empty   the empty text        absent  no content at all               *)
(*   tools   content items without text                                    *)
(*   env     a text holding the tag <environment_context>                  *)
(***************************************************************************)
Roles == {"user", "assistant", "developer", "meta"}

Kinds == {"plain", "other", "parts", "empty", "absent", "tools", "env"}

\* the raw events: only a turn of the user or the assistant has kinds
IsEventCase(role, kind) == role \in {"user", "assistant"} \/ kind = "plain"

\* the kinds whose extracted content is empty
EmptyKinds == {"empty", "absent", "tools"}

\* the text a kind carries
KindText(kind) ==
    CASE kind \in {"plain", "parts"} -> <<"x">>
      [] kind = "other" -> <<"y">>
      [] kind = "env" -> <<"<environment_context>", "e">>
      [] OTHER -> <<>>

ToolUseItem == [content_type |-> "tool_use", text |-> NoneStr, name |-> SomeStr(<<"t">>)]

TextItem(text) == [content_type |-> "text", text |-> SomeStr(text), name |-> NoneStr]

\* the Claude log line of a raw event
ClaudeRaw(role, kind) ==
    Event("f1", IF role = "meta" THEN "summary" ELSE IF role = "developer" THEN "system" ELSE role, 1,
          CASE kind = "absent" -> NoneMsg
            [] kind = "tools" -> ArrayMessage(<<ToolUseItem>>)
            [] kind = "parts" -> ArrayMessage(<<ToolUseItem, TextItem(KindText(kind))>>)
            [] OTHER -> TextMessage(KindText(kind)))

\* the content items of a Codex payload
CodexContent(kind) ==
    CASE kind = "absent" -> [some |-> FALSE, v |-> <<>>]
      [] kind = "tools" -> [some |-> TRUE, v |-> <<[text |-> NoneStr]>>]
      [] kind = "parts" -> [some |-> TRUE, v |-> <<[text |-> NoneStr], [text |-> SomeStr(KindText(kind))]>>]
      [] OTHER -> [some |-> TRUE, v |-> <<[text |-> SomeStr(KindText(kind))]>>]

\* the Codex log line of a raw event
CodexRaw(role, kind) ==
    [blank |-> FALSE, json |-> TRUE,
     event_type |-> IF role = "meta" THEN "session_meta" ELSE "response_item",
     timestamp |-> SomeNum(1),
     payload |-> [some |-> TRUE,
                  v |-> [role |-> IF role = "meta" THEN NoneStr ELSE SomeStr(role),
                         cwd |-> IF role = "meta" THEN SomeStr(ProjectDir) ELSE NoneStr,
                         content |-> CodexContent(kind)]]]

\* the Gemini message of a raw event
GeminiRaw(role, kind) ==
    [message_type |-> IF role = "assistant" THEN "gemini"
                      ELSE IF role = "user" THEN "user" ELSE "info",
     content |-> KindText(kind), timestamp |-> SomeNum(1)]

GeminiFile(events) ==
    [json |-> TRUE, session_id |-> <<"g", "1">>, start_time |-> SomeNum(1),
     last_updated |-> SomeNum(1),
     messages |-> [i \in 1..Len(events) |-> GeminiRaw(events[i][1], events[i][2])]]

Providers == {"claude", "codex", "gemini"}

\* parse_session of the given provider on the log made of the raw events
ParseEvents(provider, events) ==
    CASE provider = "claude" ->
           ClaudeParseSession(FileStem("f1"),
               [i \in 1..Len(events) |-> ClaudeRaw(events[i][1], events[i][2])], TRUE, Now)
      [] provider = "codex" ->
           CodexParseSession(FileStem("f1"),
               [i \in 1..Len(events) |-> CodexRaw(events[i][1], events[i][2])], TRUE, Now)
      [] OTHER -> GeminiParseSession(GeminiFile(events), ProjectDir, TRUE, Now)

\* the assistant CLI logs one more raw event
LogEvent(role, kind) ==
    /\ last.op \in {"new", "log_event"}
    /\ IsEventCase(role, kind)
    /\ Len(last.arg) < MaxEvents
    /\ last' = [Env("log_event") EXCEPT !.arg = Append(last.arg, <<role, kind>>)]
    /\ UNCHANGED <<logs, disk, store, watch, calls>>

\* parse_session of a provider on the events logged
ParseSession(provider) ==
    /\ last.op \in {"new", "log_event"}
    /\ last' = [Env("parse_session") EXCEPT
                  !.arg = last.arg, !.file = provider,
                  !.out = ParseEvents(provider, last.arg).session]
    /\ UNCHANGED <<logs, disk, store, watch, calls>>

NextParse ==
    \/ \E role \in Roles, kind \in Kinds : LogEvent(role, kind)
    \/ \E provider \in Providers : ParseSession(provider)

SpecParse == Init /\ [][NextParse]_vars

\* the raw events that carry text and are spoken by the user or the assistant
WithContent(events) ==
    {i \in 1..Len(events) :
        events[i][1] \in {"user", "assistant"} /\ events[i][2] \notin EmptyKinds}

\* C14: for the three parsers every message of a parsed session has
\* non-empty content; an event whose extracted content is empty gives no
\* message, so the session has no more messages than events with content,
\* and the artifact's message_count is that number of messages.
C14_NoEmptyContent ==
    last.op = "parse_session" =>
        /\ \A i \in 1..Len(last.out.messages) : last.out.messages[i].content # <<>>
        /\ Len(last.out.messages) <= Cardinality(WithContent(last.arg))
        /\ last.file # "codex" => Len(last.out.messages) = Cardinality(WithContent(last.arg))
        /\ ParseFrontmatter(generate_markdown(last.out).head).message_count
              = SomeNum(Len(last.out.messages))

\* a log with an event with content and an event without has been parsed
\* into one message
C14_Witness ==
    /\ last.op = "parse_session"
    /\ Len(last.out.messages) = 1
    /\ \E i \in 1..Len(last.arg) :
           last.arg[i][1] \in {"user", "assistant"} /\ last.arg[i][2] \in EmptyKinds
    /\ last.file = "gemini"

\* the raw events the Codex parser accepts: a turn of the user or the
\* assistant with text that is not an injected context
Accepted(events) ==
    {i \in WithContent(events) : ~(events[i][1] = "user" /\ events[i][2] = "env")}

\* two raw events with the same role and the same normalized content
SameTurn(a, b) == a[1] = b[1] /\ KindText(a[2]) = KindText(b[2])

\* the accepted events that do not repeat the accepted event before them
RunStarts(events) ==
    {i \in Accepted(events) :
        \A j \in Accepted(events) :
            (j < i /\ \A k \in Accepted(events) : ~(j < k /\ k < i))
                => ~SameTurn(events[j], events[i])}

\* C15: a session parsed from a Codex log never has two consecutive messages
\* with the same role and content; every run of consecutive accepted events
\* with identical role and content gives one message, and an event that
\* repeats an earlier one after a different accepted message is kept.
C15_AdjacentDuplicates ==
    (last.op = "parse_session" /\ last.file = "codex") =>
        /\ \A i \in 1..(Len(last.out.messages) - 1) :
               ~(/\ last.out.messages[i].role = last.out.messages[i + 1].role
                 /\ last.out.messages[i].content = last.out.messages[i + 1].content)
        /\ Len(last.out.messages) = Cardinality(RunStarts(last.arg))

\* a Codex log of two identical turns, written differently, and a third
\* turn has been parsed into two messages
C15_Witness ==
    /\ last.op = "parse_session"
    /\ last.file = "codex"
    /\ Len(last.arg) = 3
    /\ Accepted(last.arg) = {1, 2, 3}
    /\ last.arg[1] # last.arg[2]
    /\ SameTurn(last.arg[1], last.arg[2])
    /\ Len(last.out.messages) = 2

(***************************************************************************)
(* slugify and extract_title on texts typed character by character.  The   *)
(* text given to the function is a padding of b's followed by the typed    *)
(* characters, so that the typed characters can lie on either side of the  *)
(* length limit of the function.                                           *)
(***************************************************************************)
\* n times the character c
Pad(n, c) == [i \in 1..n |-> c]

\* the characters typed into a text that is made a slug of
SlugChars == {"a", "A", "1", " ", Dash, "?", "U+00C9"}

\* the paddings in front of the typed characters
SlugPads == {0, SlugMaxChars - 2, SlugMaxChars}

\* slugify of the padded text
Slugify(pad) ==
    /\ last.op \in {"new", "type"}
    /\ last' = [Env("slugify") EXCEPT
                  !.arg = last.arg, !.n = pad,
                  !.out = slugify(Pad(pad, "b") \o last.arg[1])]
    /\ UNCHANGED <<logs, disk, store, watch, calls>>

NextSlug ==
    \/ \E c \in SlugChars : TypeChar(1, c)
    \/ \E pad \in SlugPads : Slugify(pad)

SpecSlug == InitText /\ [][NextSlug]_vars

\* an uppercase letter: A to Z, or the capital e with acute accent
IsUppercase(c) == IsUpper(c) \/ c = "U+00C9"

\* C16: the slug of a text is never empty, has no uppercase letter, does not
\* begin or end with a hyphen and has no two hyphens in a row.
C16_SlugShape ==
    last.op = "slugify" =>
        /\ last.out # <<>>
        /\ \A i \in 1..Len(last.out) : ~IsUppercase(last.out[i])
        /\ last.out[1] # Dash
        /\ last.out[Len(last.out)] # Dash
        /\ \A i \in 1..(Len(last.out) - 1) : ~(last.out[i] = Dash /\ last.out[i + 1] = Dash)

\* the characters typed into the first message of a session
TitleChars == {"a", "U+00E9", NL}

\* the paddings in front of the typed characters
TitlePads == {0, TitleMaxLen - 2, TitleMaxLen - 1, TitleMaxLen}

\* the sessions a title is taken from: the text is said by the user first,
\* by the user after a turn of the assistant, by the assistant alone
TitleShapes == {"user", "assistant_user", "assistant"}

TitleMessage(role, text) ==
    [role |-> role, content |-> text, timestamp |-> 1, tool_calls |-> <<>>]

TitleMessages(shape, text) ==
    CASE shape = "user" -> <<TitleMessage("User", text), TitleMessage("User", <<"z">>)>>
      [] shape = "assistant_user" ->
           <<TitleMessage("Assistant", <<"z">>), TitleMessage("User", text)>>
      [] OTHER -> <<TitleMessage("Assistant", text)>>

\* extract_title on the session of the given shape; out is the title, or
\* the panic of the slice
ExtractTitle(pad, shape) ==
    /\ last.op \in {"new", "type"}
    /\ last' = [Env("extract_title") EXCEPT
                  !.arg = last.arg, !.n = pad, !.file = shape,
                  !.out = [panic |-> TitlePanics(
                                        TitleMessages(shape, Pad(pad, "b") \o last.arg[1])),
                           title |-> IF TitlePanics(
                                           TitleMessages(shape, Pad(pad, "b") \o last.arg[1]))
                                     THEN <<>>
                                     ELSE extract_title(
                                           TitleMessages(shape, Pad(pad, "b") \o last.arg[1]))]]
    /\ UNCHANGED <<logs, disk, store, watch, calls>>

NextTitle ==
    \/ \E c \in TitleChars : TypeChar(1, c)
    \/ \E pad \in TitlePads, shape \in TitleShapes : ExtractTitle(pad, shape)

SpecTitle == InitText /\ [][NextTitle]_vars

\* the text the title is taken from in the last call
TitleText == Pad(last.n, "b") \o last.arg[1]

\* its first line, the placeholder when it has no line
TitleLine == IF SplitLines(TitleText) = <<>> THEN Untitled ELSE SplitLines(TitleText)[1]

\* C17: the title is the first line of the first user message when the line
\* has at most 60 characters, its first 60 characters followed by "..." when
\* it has more (never more than 63 characters in all), and "Untitled
\* Session" for a session without user message.
C17_Title ==
    last.op = "extract_title" =>
        /\ ~last.out.panic
        /\ Len(last.out.title) <= TitleMaxLen + 3
        /\ last.out.title =
              IF last.file = "assistant" THEN Untitled
              ELSE IF Len(TitleLine) <= TitleMaxLen THEN TitleLine
              ELSE SubSeq(TitleLine, 1, TitleMaxLen) \o <<".", ".", ".">>

\* the output path a pass on the parsed session works with
PathOf(st, session) == CheckState(st, session).markdown_path

\* the effective synced_count of the pass just made: 0 after the reset for
\* force or for a missing artifact with a recorded count, else the recorded
\* count, 0 for a session without entry
EffectiveOf(step) ==
    IF step.force \/ (~step.existed /\ step.prior > 0) THEN 0
    ELSE IF step.prior < 0 THEN 0 ELSE step.prior

C18_Step ==
    (last'.op = "sync_session" /\ last'.status = "Synced") =>
        /\ last'.n = Len(MessagesOf(last'.file)) - EffectiveOf(last')
        /\ EffectiveOf(last') = 0 =>
               disk'[PathOf(store, SessionOf(last'.file))]
                   = generate_markdown(SessionOf(last'.file))
        /\ EffectiveOf(last') > 0 =>
               disk'[PathOf(store, SessionOf(last'.file))]
                   = [disk[PathOf(store, SessionOf(last'.file))] EXCEPT
                        !.blocks = @ \o FormatMessages(
                            SubSeq(MessagesOf(last'.file), EffectiveOf(last') + 1,
                                   Len(MessagesOf(last'.file))))]
        /\ \A p \in DOMAIN disk :
               p # PathOf(store, SessionOf(last'.file)) => (p \in DOMAIN disk' /\ disk'[p] = disk[p])

\* C18: a pass that writes creates or overwrites the artifact with the full
\* session when the effective synced_count is 0; otherwise it appends the
\* messages from index synced_count on and leaves what the artifact held in
\* place; the count it reports is the total minus the effective
\* synced_count.
C18_WriteSelection == [][C18_Step]_vars

\* a pass appended one message to an artifact that held one
C18_Witness ==
    /\ last.op = "sync_session" /\ last.status = "Synced" /\ ~last.force
    /\ last.prior = 1 /\ last.existed /\ last.n = 1
    /\ Len(disk[LastPath].blocks) = 2

C19_Step ==
    (/\ last'.op = "sync_session" /\ ~last'.force
     /\ last'.prior > 0 /\ ~last'.existed
     /\ MessagesOf(last'.file) # <<>>) =>
        /\ last'.status = "Synced"
        /\ last'.n = Len(MessagesOf(last'.file))
        /\ store'[SessionOf(last'.file).session_id].markdown_path
              = store[SessionOf(last'.file).session_id].markdown_path
        /\ store'[SessionOf(last'.file).session_id].synced_message_count
              = Len(MessagesOf(last'.file))
        /\ disk'[store[SessionOf(last'.file).session_id].markdown_path]
              = generate_markdown(SessionOf(last'.file))

\* C19: when the store records a count above 0 for a session whose artifact
\* is gone, the next non-forced pass on the session, if it has messages,
\* creates the artifact again at the recorded path with the metadata block
\* and all the messages, returns Synced with the total and records the
\* total; it does not append the new messages to an empty file.
C19_MissingArtifact == [][C19_Step]_vars

\* a pass created again the removed artifact of a session of which two
\* messages were recorded, the log having grown to three
C19_Witness ==
    /\ last.op = "sync_session" /\ last.status = "Synced" /\ ~last.force
    /\ last.prior = 2 /\ ~last.existed /\ last.n = 3
    /\ disk[LastPath] = generate_markdown(LastSession)

C20_Step ==
    (last'.op = "sync_session" /\ last'.status = "UpToDate") =>
        (disk' = disk /\ store' = store)

\* C20: a pass that returns UpToDate writes nothing: the output directory,
\* the store entry of the session and every other store entry are what
\* they were before the call.
C20_UpToDateWritesNothing == [][C20_Step]_vars

\* a pass returned UpToDate for a session with an entry and an artifact, the
\* log having been cut below the recorded count
C20_Witness ==
    /\ last.op = "sync_session" /\ last.status = "UpToDate"
    /\ last.existed
    /\ last.prior > Len(LastSession.messages)
    /\ store[LastSession.session_id].synced_message_count = last.prior

\* C21: whenever a pass returns UpToDate the session is fully materialized:
\* the output artifact exists and its message blocks are exactly the
\* messages of the session as parsed in that pass, also when the source
\* log was rewritten or shrank since the pass before.
C21_UpToDateMaterialized ==
    (last.op = "sync_session" /\ last.status = "UpToDate") =>
        /\ LastSession.session_id \in DOMAIN store
        /\ LastPath \in DOMAIN disk
        /\ disk[LastPath].blocks = FormatMessages(LastSession.messages)

C22_Step ==
    last'.op = "sync_session" =>
        IF last'.status = "Synced"
        THEN /\ last'.io.kind = "ok"
             /\ PathOf(store, SessionOf(last'.file)) \in DOMAIN disk'
             /\ DOMAIN store' = DOMAIN store \cup {SessionOf(last'.file).session_id}
             /\ store'[SessionOf(last'.file).session_id].synced_message_count
                   = Len(MessagesOf(last'.file))
             /\ store'[SessionOf(last'.file).session_id].markdown_path
                   = PathOf(store, SessionOf(last'.file))
             /\ \A sid \in DOMAIN store :
                    sid # SessionOf(last'.file).session_id => store'[sid] = store[sid]
        ELSE store' = store

\* C22: the store entry of a session is created or updated only by a pass
\* whose write step succeeded, and then to the total message count of the
\* parsed session with the output path written to; a pass that ends in a
\* parse failure, Skipped, UpToDate or a failed directory, create or append
\* step leaves the store as it was before the call.
C22_StoreUpdate == [][C22_Step]_vars

\* an append of the second message failed part way: the pass returned the
\* error and the store still records one message
C22_Witness ==
    /\ last.op = "sync_session" /\ last.status = "Err"
    /\ last.io.kind = "write" /\ last.io.part > 0
    /\ last.prior = 1 /\ last.existed /\ ~last.force
    /\ Len(LastSession.messages) = 2
    /\ store[LastSession.session_id].synced_message_count = 1

\* the artifacts a step wrote: those that are new or changed
Written(d, e) == {p \in DOMAIN e : p \notin DOMAIN d \/ e[p] # d[p]}

C23_Step ==
    /\ last'.op # "restart" =>
           \A sid \in DOMAIN store :
               sid \in DOMAIN store' /\ store'[sid].markdown_path = store[sid].markdown_path
    /\ (last'.op = "sync_session" /\ last'.status = "Synced") =>
           /\ Written(disk, disk') \subseteq
                 {IF SessionOf(last'.file).session_id \in DOMAIN store
                  THEN store[SessionOf(last'.file).session_id].markdown_path
                  ELSE NewMarkdownPath(SessionOf(last'.file))}
           /\ store'[SessionOf(last'.file).session_id].markdown_path =
                  IF SessionOf(last'.file).session_id \in DOMAIN store
                  THEN store[SessionOf(last'.file).session_id].markdown_path
                  ELSE NewMarkdownPath(SessionOf(last'.file))
           /\ store'[SessionOf(last'.file).session_id].markdown_path \in DOMAIN disk'

\* C23: once a session id has a store entry, every later pass on the session
\* (forced or not, after the artifact was removed, after the first user
\* message or the start time in the log changed) writes to the recorded
\* output path, which stays recorded; a new name (time stamp of started_at,
\* provider name, slug of the first user message or the session id when
\* there is none) is derived only when the store has no entry for the id.
C23_PathStable == [][C23_Step]_vars

\* a pass wrote a session again at its recorded path, the artifact having
\* been removed and the log now giving another file name
C23_Witness ==
    /\ last.op = "sync_session" /\ last.status = "Synced"
    /\ last.prior > 0 /\ ~last.existed
    /\ LastPath \in DOMAIN disk
    /\ NewMarkdownPath(LastSession) # LastPath
    /\ NewMarkdownPath(LastSession) \notin DOMAIN disk

\* C24: no two session ids share an output path: in every reachable state
\* the output paths recorded in the store are pairwise distinct, so that
\* creating the artifact of a new session never overwrites the artifact of
\* another session, also when two sessions start in the same second with
\* the same first user message.
C24_DistinctPaths ==
    \A a \in DOMAIN store, b \in DOMAIN store :
        a # b => store[a].markdown_path # store[b].markdown_path

(***************************************************************************)
(* Two calls of sync_session on one source log.  The calls are named as    *)
(* the entries of calls; both work on the source log f1.                   *)
(***************************************************************************)
\* step 1 of call c on the source log f1
TwinParse(c) ==
    /\ calls[c].at = "start"
    /\ calls' = [calls EXCEPT ![c] =
                    CallParsed(@, ClaudeParseSession(FileStem("f1"), logs["f1"], TRUE, Now))]
    /\ last' = RoundStep("parse_session", "f1")
    /\ UNCHANGED <<logs, disk, store, watch>>

\* step 6 of call c on the source log f1
TwinUpdateSession(c) ==
    /\ calls[c].at = "update"
    /\ store' = CallUpdate(store, calls[c], "f1", Now)
    /\ calls' = [calls EXCEPT ![c] =
                    Returned(@, "Synced",
                             Len(NewMessages(calls[c].session.messages, calls[c].synced_count)))]
    /\ last' = RoundStep("update_session", "f1")
    /\ UNCHANGED <<logs, disk, watch>>

\* Two calls on the same source log at a time, their steps interleaved; the
\* log grows between the rounds.
NextTwin ==
    \/ Spawn
    \/ \E c \in Files : TwinParse(c)
    \/ \E c \in Files : CallGetState(c)
    \/ \E c \in Files : CallWrite(c)
    \/ \E c \in Files : TwinUpdateSession(c)
    \/ Join
    \/ \E kind \in BulkLineKinds :
           /\ \A c \in Files : calls[c].at = "idle"
           /\ AppendLine("f1", kind, MaxLog)

SpecTwin == Init /\ [][NextTwin]_vars

\* C25: when two interleaved calls on the same session have completed, the
\* artifact holds each message of the source log exactly once and the
\* recorded synced_count is the number of message blocks in it; the two
\* calls never both write the same message.
C25_OnceEach ==
    (BothReturned /\ \A c \in Files : calls[c].status = "Synced") =>
        /\ disk[store[SessionOf("f1").session_id].markdown_path].blocks
              = FormatMessages(MessagesOf("f1"))
        /\ store[SessionOf("f1").session_id].synced_message_count
              = Len(disk[store[SessionOf("f1").session_id].markdown_path].blocks)

\* C26: in every reachable state the message_count field of the metadata
\* block of an artifact is the number of message blocks the artifact holds,
\* after a create and after an append alike, so that a store built from the
\* artifact records as many messages as are materialized.
C26_CountMatchesBlocks ==
    \A p \in DOMAIN disk : CountField(disk[p].head) = Len(disk[p].blocks)

(***************************************************************************)
(* Logs with lines that are not events.  A raw line is <<role, kind>>, the *)
(* role being that of a raw event, "bad" for a line that does not          *)
(* deserialise or "blank" for a line that is empty after trim.             *)
(***************************************************************************)
LineRoles == {"user", "assistant", "meta", "bad", "blank"}

LineTexts == {"plain", "other"}

IsLineCase(role, kind) == role \in {"user", "assistant"} \/ kind = "plain"

\* the Claude log line of a raw line
ClaudeLogLine(role, kind) ==
    CASE role = "bad" -> BadLine
      [] role = "blank" -> [BadLine EXCEPT !.blank = TRUE]
      [] OTHER -> ClaudeRaw(role, kind)

\* the Codex log line of a raw line
CodexLogLine(role, kind) ==
    CASE role = "bad" -> [CodexRaw("meta", kind) EXCEPT !.json = FALSE]
      [] role = "blank" -> [CodexRaw("meta", kind) EXCEPT !.blank = TRUE, !.json = FALSE]
      [] OTHER -> CodexRaw(role, kind)

\* the raw lines that are events
Events(raw) == SelectSeq(raw, LAMBDA e : e[1] \notin {"bad", "blank"})

HasBad(raw) == \E i \in 1..Len(raw) : raw[i][1] = "bad"

\* the Gemini document of the raw lines: it deserialises when no part of it
\* is malformed; white space between the messages is not part of the data
GeminiDocument(raw) == [GeminiFile(Events(raw)) EXCEPT !.json = ~HasBad(raw)]

\* parse_session of the given provider on the raw lines: [ok, session]
ParseRaw(provider, raw) ==
    CASE provider = "claude" ->
           ClaudeParseSession(FileStem("f1"),
               [i \in 1..Len(raw) |-> ClaudeLogLine(raw[i][1], raw[i][2])], TRUE, Now)
      [] provider = "codex" ->
           CodexParseSession(FileStem("f1"),
               [i \in 1..Len(raw) |-> CodexLogLine(raw[i][1], raw[i][2])], TRUE, Now)
      [] OTHER -> GeminiParseSession(GeminiDocument(raw), ProjectDir, TRUE, Now)

\* one more line is written to the log
LogLine(role, kind) ==
    /\ last.op \in {"new", "log_line"}
    /\ IsLineCase(role, kind)
    /\ Len(last.arg) < MaxEvents
    /\ last' = [Env("log_line") EXCEPT !.arg = Append(last.arg, <<role, kind>>)]
    /\ UNCHANGED <<logs, disk, store, watch, calls>>

\* parse_session of a provider on the lines written
ParseLog(provider) ==
    /\ last.op \in {"new", "log_line"}
    /\ last' = [Env("parse_log") EXCEPT
                  !.arg = last.arg, !.file = provider,
                  !.out = ParseRaw(provider, last.arg)]
    /\ UNCHANGED <<logs, disk, store, watch, calls>>

NextParseLog ==
    \/ \E role \in LineRoles, kind \in LineTexts : LogLine(role, kind)
    \/ \E provider \in Providers : ParseLog(provider)

SpecParseLog == Init /\ [][NextParseLog]_vars

\* C27: a line that is not blank and is not a valid event aborts the parse
\* of a Claude log with an error, no session being returned, and the pass
\* on it yields Failed; the Codex parser skips such a line and builds the
\* session from the other lines; a Gemini document that does not
\* deserialise is a failure of the parse.
C27_ParsePolicy ==
    last.op = "parse_log" =>
        CASE last.file = "claude" ->
               /\ last.out.ok <=> ~HasBad(last.arg)
               /\ HasBad(last.arg) =>
                      SyncParsed(disk, store, "f1", last.out, FALSE, IoOk, Now).status = "Failed"
          [] last.file = "codex" ->
               /\ last.out.ok
               /\ last.out = ParseRaw("codex", Events(last.arg))
          [] OTHER -> last.out.ok <=> ~HasBad(last.arg)

\* a Codex log with a malformed line between two turns was parsed into a
\* session with both turns
C27_Witness ==
    /\ last.op = "parse_log" /\ last.file = "codex"
    /\ Len(last.arg) = 3 /\ last.arg[2][1] = "bad"
    /\ last.arg[1][1] = "user" /\ last.arg[3][1] = "assistant"
    /\ Len(last.out.session.messages) = 2

(***************************************************************************)
(* Logs whose events carry a session id and a working directory or not.    *)
(* A raw line is <<sid, cwd>>: "none" for a field the event lacks, otherwise *)
(* the name of the value.                                                  *)
(***************************************************************************)
MetaValues == {"none", "a", "b"}

LineFormats == {"claude", "codex"}

\* the optional field of a raw line, as a session id or as a directory
MetaField(name, dir) ==
    IF name = "none" THEN NoneStr
    ELSE SomeStr(IF dir THEN <<"/", name>> ELSE <<name>>)

\* a Claude user event with the fields of the raw line
ClaudeMetaLine(sid, cwd) ==
    [Event("f1", "user", 1, TextMessage(<<"x">>)) EXCEPT
        !.session_id = MetaField(sid, FALSE), !.cwd = MetaField(cwd, TRUE)]

\* a Codex turn_context event with the working directory of the raw line;
\* CodexEvent has no field for a session id
CodexMetaLine(sid, cwd) ==
    [CodexRaw("meta", "plain") EXCEPT
        !.event_type = "turn_context", !.payload.v.cwd = MetaField(cwd, TRUE)]

\* parse_session of a line-delimited format on the raw lines
ParseMetaLines(provider, raw) ==
    IF provider = "claude"
    THEN ClaudeParseSession(FileStem("f1"),
             [i \in 1..Len(raw) |-> ClaudeMetaLine(raw[i][1], raw[i][2])], TRUE, Now)
    ELSE CodexParseSession(FileStem("f1"),
             [i \in 1..Len(raw) |-> CodexMetaLine(raw[i][1], raw[i][2])], TRUE, Now)

\* one more event is written to the log
LogMeta(sid, cwd) ==
    /\ last.op \in {"new", "log_meta"}
    /\ Len(last.arg) < MaxEvents
    /\ last' = [Env("log_meta") EXCEPT !.arg = Append(last.arg, <<sid, cwd>>)]
    /\ UNCHANGED <<logs, disk, store, watch, calls>>

\* parse_session of a provider on the events written
ParseMeta(provider) ==
    /\ last.op \in {"new", "log_meta"}
    /\ last' = [Env("parse_meta") EXCEPT
                  !.arg = last.arg, !.file = provider,
                  !.out = ParseMetaLines(provider, last.arg).session]
    /\ UNCHANGED <<logs, disk, store, watch, calls>>

NextParseMeta ==
    \/ \E sid \in MetaValues, cwd \in MetaValues : LogMeta(sid, cwd)
    \/ \E provider \in LineFormats : ParseMeta(provider)

SpecParseMeta == Init /\ [][NextParseMeta]_vars

\* the events of the raw lines that carry field k (1: session id, 2: cwd)
Carriers(raw, k) == {i \in 1..Len(raw) : raw[i][k] # "none"}

\* the value of field k in the earliest event that carries it
Earliest(raw, k) ==
    raw[CHOOSE i \in Carriers(raw, k) : \A j \in Carriers(raw, k) : i <= j][k]

\* C28: the session id and the working directory of a session parsed from a
\* line-delimited log are those of the earliest event that carries them,
\* also when the first event lacks the field; the base name of the file is
\* the session id only when no event carries one.
C28_EarliestCarrier ==
    (last.op = "parse_meta" /\ last.arg # <<>>) =>
        /\ last.out.session_id =
              IF last.file = "claude" /\ Carriers(last.arg, 1) # {}
              THEN <<Earliest(last.arg, 1)>> ELSE FileStem("f1")
        /\ last.out.project_path =
              IF Carriers(last.arg, 2) # {}
              THEN <<"/", Earliest(last.arg, 2)>> ELSE <<>>

\* a Claude log whose first event carries both fields gets them from it
FirstEventCarries ==
    (last.op = "parse_meta" /\ last.file = "claude"
        /\ last.arg # <<>> /\ last.arg[1][1] # "none" /\ last.arg[1][2] # "none") =>
        /\ last.out.session_id = <<last.arg[1][1]>>
        /\ last.out.project_path = <<"/", last.arg[1][2]>>

\* the message of each line of a Claude log that gives one, in the order
\* of the lines
ArrivalOrder(lines) ==
    LET given == SelectSeq(lines, LAMBDA line :
                     /\ ~line.blank /\ line.json
                     /\ line.type \in {"user", "assistant"}
                     /\ ClaudeParseMessage(line, Now).some)
    IN  [i \in 1..Len(given) |-> ClaudeParseMessage(given[i], Now).v]

\* the blocks of the artifact are those of the messages, in their order
InOrder(blocks, messages) ==
    /\ Len(blocks) = Len(messages)
    /\ \A i \in 1..Len(messages) : blocks[i] = format_message(messages[i])

C29_Step ==
    (last'.op = "sync_session" /\ last'.status = "Synced") =>
        /\ MessagesOf(last'.file) = ArrivalOrder(logs[last'.file])
        /\ InOrder(disk'[PathOf(store, SessionOf(last'.file))].blocks,
                   ArrivalOrder(logs[last'.file]))
        /\ EffectiveOf(last') > 0 =>
               SubSeq(disk'[PathOf(store, SessionOf(last'.file))].blocks, 1,
                      Len(disk[PathOf(store, SessionOf(last'.file))].blocks))
                  = disk[PathOf(store, SessionOf(last'.file))].blocks

\* C29: the messages of a parsed session and the blocks of the artifact are
\* in the order in which the events arrived in the source log, whatever
\* their time stamps; an append pass puts its blocks after all the blocks
\* the artifact held.
C29_ArrivalOrder == [][C29_Step]_vars

\* an append pass added the block of a message whose time stamp is before
\* that of the message already in the artifact
C29_Witness ==
    /\ last.op = "sync_session" /\ last.status = "Synced"
    /\ last.prior = 1 /\ last.existed /\ last.n = 1
    /\ Len(disk[LastPath].blocks) = 2
    /\ disk[LastPath].blocks[2].time < disk[LastPath].blocks[1].time

(***************************************************************************)
(* Codex project matching (src/src/providers/codex.rs, probe_project_path). *)
(* Paths are texts, one token a character.                                 *)
(***************************************************************************)
\* the number of lines probe_project_path reads (line 223)
ProbeLimit == 50

Backslash == "\\"

RECURSIVE TrimEndMatches(_, _)
\* str::trim_end_matches(c)
TrimEndMatches(text, c) ==
    IF text # <<>> /\ text[Len(text)] = c
    THEN TrimEndMatches(SubSeq(text, 1, Len(text) - 1), c)
    ELSE text

\* .trim_end_matches('/').trim_end_matches('\\') (lines 213-217, 231-234)
TrimSeparators(path) == TrimEndMatches(TrimEndMatches(path, "/"), Backslash)

\* str::starts_with
StartsWith(text, prefix) ==
    Len(prefix) <= Len(text) /\ SubSeq(text, 1, Len(prefix)) = prefix

\* the tests on the first working directory found (lines 236-246)
CwdMatches(session_cwd, target_str) ==
    \/ session_cwd = target_str
    \/ StartsWith(target_str, session_cwd) /\ Len(session_cwd) > 1
    \/ StartsWith(session_cwd, target_str) /\ Len(target_str) > 1

RECURSIVE ProbeLines(_, _, _)
\* the loop over the lines (lines 221-251), checked lines read so far
ProbeLines(lines, target_str, checked) ==
    IF lines = <<>> \/ checked >= ProbeLimit THEN FALSE
    ELSE IF Head(lines).json /\ Head(lines).payload.some /\ Head(lines).payload.v.cwd.some
    THEN CwdMatches(TrimSeparators(Head(lines).payload.v.cwd.v), target_str)
    ELSE ProbeLines(Tail(lines), target_str, checked + 1)

\* probe_project_path(file_path, target_project_path) on a file that can be read
probe_project_path(lines, target_project_path) ==
    ProbeLines(lines, TrimSeparators(target_project_path), 0)

\* the characters typed at the end of a path
PathChars == {"/", "p", "2"}

\* what the typed characters of the working directory come after
CwdBases == {"root", "parent", "project"}

BasePath(base) ==
    CASE base = "root" -> <<>>
      [] base = "parent" -> <<"/", "a">>
      [] OTHER -> <<"/", "a", "/", "p">>

\* the number of lines without working directory before the first with one
ProbePads == {0, ProbeLimit - 1, ProbeLimit}

\* a Codex event recording the working directory cwd
CwdLine(cwd) == [CodexRaw("meta", "plain") EXCEPT !.payload.v.cwd = SomeStr(cwd)]

\* a candidate file: pad turns of the user, an event with the working
\* directory cwd, then an event with the working directory of the target
ProbeFile(pad, cwd, target) ==
    Pad(pad, CodexRaw("user", "plain")) \o <<CwdLine(cwd), CwdLine(target)>>

\* the working directory and the target of the step: typed text 1 after the
\* base, typed text 2 after /a/p
CwdOf(step) == BasePath(step.file) \o step.arg[1]

TargetOf(step) == BasePath("project") \o step.arg[2]

\* probe_project_path on the candidate file of the typed paths
Probe(base, pad) ==
    /\ last.op \in {"new", "type"}
    /\ last' = [Env("probe") EXCEPT
                  !.arg = last.arg, !.file = base, !.n = pad,
                  !.out = probe_project_path(
                              ProbeFile(pad, BasePath(base) \o last.arg[1],
                                        BasePath("project") \o last.arg[2]),
                              BasePath("project") \o last.arg[2])]
    /\ UNCHANGED <<logs, disk, store, watch, calls>>

NextProbe ==
    \/ \E k \in {1, 2}, c \in PathChars : TypeChar(k, c)
    \/ \E base \in CwdBases, pad \in ProbePads : Probe(base, pad)

SpecProbe == InitText /\ [][NextProbe]_vars

\* a path without its trailing separators
Trimmed(path) ==
    IF \E i \in 1..Len(path) : path[i] # "/"
    THEN SubSeq(path, 1, CHOOSE i \in 1..Len(path) :
                             path[i] # "/" /\ \A j \in (i + 1)..Len(path) : path[j] = "/")
    ELSE <<>>

\* directory sub is below directory dir, which is not the root
IsBelow(sub, dir) ==
    /\ dir # <<>>
    /\ Len(sub) > Len(dir) + 1
    /\ SubSeq(sub, 1, Len(dir)) = dir
    /\ sub[Len(dir) + 1] = "/"

\* C30: a candidate file belongs to the target project exactly when the first
\* working directory recorded in its first 50 lines, without its trailing
\* separators, is the target path, a subdirectory of it or an ancestor of
\* it; a sibling directory whose name starts with the name of the target
\* and the root of the file system do not match.
C30_ProjectMatch ==
    last.op = "probe" =>
        (last.out <=>
            /\ last.n < ProbeLimit
            /\ \/ Trimmed(CwdOf(last)) = Trimmed(TargetOf(last))
               \/ IsBelow(Trimmed(CwdOf(last)), Trimmed(TargetOf(last)))
               \/ IsBelow(Trimmed(TargetOf(last)), Trimmed(CwdOf(last))))

\* the claim without the sibling directories: a match implies that one path
\* starts with the other, and equal, nested and ancestor paths match
ProbeWithoutSiblings ==
    last.op = "probe" =>
        /\ (/\ last.n < ProbeLimit
            /\ \/ Trimmed(CwdOf(last)) = Trimmed(TargetOf(last))
               \/ IsBelow(Trimmed(CwdOf(last)), Trimmed(TargetOf(last)))
               \/ IsBelow(Trimmed(TargetOf(last)), Trimmed(CwdOf(last)))) => last.out
        /\ last.out =>
               /\ last.n < ProbeLimit
               /\ \/ StartsWith(Trimmed(CwdOf(last)), Trimmed(TargetOf(last)))
                  \/ StartsWith(Trimmed(TargetOf(last)), Trimmed(CwdOf(last)))
        /\ Trimmed(CwdOf(last)) = <<>> => ~last.out

(***************************************************************************)
(* Construction of the store over an output directory with artifacts that  *)
(* cannot be read or have lost their metadata block, the scan of the       *)
(* directory failing or not.                                               *)
(***************************************************************************)
\* how the scan of the directory goes: no failure, read_dir fails, next_entry
\* fails on some entry
ScanKinds == {"ok", "read_dir", "next_entry"}

\* SessionTracker::new: the results [ok, store] it can give.  A failing
\* read_dir returns Ok with the empty store (lines 118-121); a failing
\* next_entry is returned with ? (line 125) and new returns it (line 31).
SessionTrackerNew(d, unreadable, scan, now) ==
    IF scan = "next_entry" THEN {[ok |-> FALSE, store |-> <<>>]}
    ELSE IF scan = "read_dir" THEN {[ok |-> TRUE, store |-> <<>>]}
    ELSE {[ok |-> TRUE, store |-> st] : st \in restore_from_disk(d, unreadable, now)}

\* the artifacts of the sessions of the source logs fs
ArtifactsOf(d, fs) ==
    {p \in DOMAIN d : \E f \in fs : HeadSays(d[p].head, "session_id:", FileStem(f))}

\* an artifact loses its metadata block
DamageArtifact(path) ==
    /\ path \in DOMAIN disk
    /\ disk[path].head # <<>>
    /\ disk' = [disk EXCEPT ![path].head = <<>>]
    /\ last' = Env("damage_artifact")
    /\ UNCHANGED <<logs, store, watch, calls>>

\* the process is started over the output directory, the artifacts of the
\* sessions of fs being unreadable
NewTracker(fs, scan) ==
    \E r \in SessionTrackerNew(disk, ArtifactsOf(disk, fs), scan, Now) :
        /\ store' = r.store
        /\ last' = [Env("new_tracker") EXCEPT
                      !.status = IF r.ok THEN "Ok" ELSE "Err",
                      !.arg = <<fs, scan>>]
        /\ UNCHANGED <<logs, disk, watch, calls>>

\* Passes on two growing source logs, artifacts damaged, the process started
\* again under every case of the scan.
NextRestore ==
    \/ \E f \in Files : SyncSession(f, FALSE, "ok", 0)
    \/ \E f \in Files, kind \in {"user", "assistant"} : AppendLine(f, kind, MaxCoreLog)
    \/ \E path \in DOMAIN disk : DamageArtifact(path)
    \/ \E fs \in SUBSET Files, scan \in ScanKinds : NewTracker(fs, scan)

SpecRestore == Init /\ [][NextRestore]_vars

\* the store holds the sessions of the artifacts that can be read and have a
\* metadata block with a session id, and nothing from the others
Recovered(d, st, unreadable) ==
    /\ \A p \in DOMAIN d \ unreadable :
           FieldValues(d[p].head, "session_id:") \subseteq DOMAIN st
    /\ \A sid \in DOMAIN st :
           /\ st[sid].markdown_path \in DOMAIN d \ unreadable
           /\ HeadSays(d[st[sid].markdown_path].head, "session_id:", sid)

\* C31: the construction of the store succeeds whatever fails during the
\* scan of the output directory; an artifact that cannot be read or whose
\* metadata block is missing gives no entry and the session of every other
\* artifact is recovered.
C31_RecoveryDegrades ==
    last.op = "new_tracker" =>
        /\ last.status = "Ok"
        /\ last.arg[2] = "ok" =>
               Recovered(disk, store, ArtifactsOf(disk, last.arg[1]))

\* the same when next_entry does not fail
RecoveryPerArtifact ==
    (last.op = "new_tracker" /\ last.arg[2] # "next_entry") =>
        /\ last.status = "Ok"
        /\ last.arg[2] = "ok" =>
               Recovered(disk, store, ArtifactsOf(disk, last.arg[1]))

\* a store was built over two artifacts, one of them unreadable or without
\* metadata block: it holds the session of the other
RecoveryPerArtifactSeen ==
    /\ last.op = "new_tracker" /\ last.arg[2] = "ok"
    /\ Cardinality(DOMAIN disk) = 2
    /\ Cardinality(DOMAIN store) = 1

\* the (role, content) sequence of a list of messages
RoleContent(messages) ==
    [i \in 1..Len(messages) |-> <<messages[i].role, messages[i].content>>]

\* sequence a is a prefix of sequence b
IsPrefix(a, b) == Len(a) <= Len(b) /\ SubSeq(b, 1, Len(a)) = a

\* C32: for the line-delimited formats, the (role, content) sequence parsed
\* from a log is a prefix of the sequence parsed from the log extended by
\* well-formed lines, also when the Codex parser drops adjacent duplicates
\* and injected messages; index synced_count of a later parse is the first
\* message not yet written.
C32_PrefixStable ==
    (last.op = "parse_session" /\ last.file \in LineFormats) =>
        \A k \in 0..Len(last.arg) :
            IsPrefix(RoleContent(ParseEvents(last.file, SubSeq(last.arg, 1, k)).session.messages),
                     RoleContent(last.out.messages))

\* a Codex log of a user turn, an injected context message and the same user
\* turn again was parsed into one message
C32_Witness ==
    /\ last.op = "parse_session" /\ last.file = "codex"
    /\ last.arg = <<<<"user", "plain">>, <<"user", "env">>, <<"user", "plain">>>>
    /\ Len(last.out.messages) = 1

(***************************************************************************)
(* The periodic loop when the lookup, the parse and the writes succeed.    *)
(* Two source logs grow; f1 is the newest candidate file.                  *)
(***************************************************************************)
NextWatchOk ==
    \/ StartWatch
    \/ Tick
    \/ SyncLatest("f1", "ok")
    \/ \E f \in Files, kind \in {"user", "assistant"} : AppendLine(f, kind, MaxLog)

SpecWatchOk == Init /\ [][NextWatchOk]_vars

\* The same, the loop being started, the timer firing and the calls of a
\* pass returning.
SpecWatchOkFair ==
    SpecWatchOk /\ WF_watch(StartWatch) /\ WF_watch(TimerFires) /\ WF_watch(PassReturns)

\* the artifact of the session of source log f holds all its messages
Settled(f) ==
    MessagesOf(f) # <<>> =>
        /\ SessionOf(f).session_id \in DOMAIN store
        /\ store[SessionOf(f).session_id].markdown_path \in DOMAIN disk
        /\ InOrder(disk[store[SessionOf(f).session_id].markdown_path].blocks, MessagesOf(f))

\* a non-forced pass on source log f returns UpToDate, or Skipped for a log
\* without messages, and writes nothing
Idle(f) ==
    /\ sync_session(disk, store, f, logs[f], FALSE, IoOk, Now).status
          = IF MessagesOf(f) = <<>> THEN "Skipped" ELSE "UpToDate"
    /\ sync_session(disk, store, f, logs[f], FALSE, IoOk, Now).disk = disk
    /\ sync_session(disk, store, f, logs[f], FALSE, IoOk, Now).store = store

SyncPass(kind, part) ==
    LET io == Io(kind, part)
        r == sync_session(disk, store, "f1", logs["f1"], FALSE, io, Now)
        parsed == ClaudeParseSession(FileStem("f1"), logs["f1"], TRUE, Now)
    IN  /\ IsIoCase(kind, part)
        /\ \A p \in DOMAIN r.disk : Len(r.disk[p].blocks) <= MaxBlocks + 1
        /\ disk' = r.disk
        /\ store' = r.store
        /\ last' = [Env("sync_session") EXCEPT
                      !.file = "f1", !.io = io,
                      !.status = r.status, !.n = r.n,
                      !.prior = PriorCount(store, parsed),
                      !.existed = ArtifactExisted(disk, store, parsed),
                      !.prev = StepBefore("f1")]
        /\ UNCHANGED <<logs, watch, calls>>

\* Non-forced passes on one growing source log, the write succeeding or being
\* cut off.
NextCutOff ==
    \/ \E kind \in {"ok", "write"}, part \in 0..MaxPart : SyncPass(kind, part)
    \/ \E kind \in {"user", "assistant"} : AppendLine("f1", kind, MaxLog)

SpecCutOff == Init /\ [][NextCutOff]_vars

\* the pass just made was an append that stopped after some but not all of
\* the blocks it had to write
AppendCutOff ==
    /\ last.op = "sync_session" /\ last.status = "Err" /\ last.io.kind = "write"
    /\ last.prior > 0 /\ last.existed
    /\ last.io.part >= 2
    /\ last.io.part - 1 < Len(MessagesOf("f1")) - last.prior

C34_Step ==
    (AppendCutOff /\ last'.op = "sync_session" /\ last'.status = "Synced") =>
        InOrder(disk'[PathOf(store, SessionOf("f1"))].blocks, MessagesOf("f1"))

\* C34: when an append pass stops after writing some but not all of its
\* blocks, the next pass that succeeds leaves the artifact with each
\* message of the source log exactly once.
C34_NoDuplicates == [][C34_Step]_vars

\* an append that is not cut off, after one that failed before writing any
\* block, leaves each message once
AppendAfterEarlyFailure ==
    [][(/\ last.op = "sync_session" /\ last.status = "Err" /\ last.io.kind = "write"
        /\ last.prior > 0 /\ last.existed /\ last.io.part <= 1
        /\ last.prev = "Synced"
        /\ last'.op = "sync_session" /\ last'.status = "Synced") =>
          InOrder(disk'[PathOf(store, SessionOf("f1"))].blocks, MessagesOf("f1"))]_vars

====
